---- MODULE Spec2Model ----
(***************************************************************************)
(* Model of the BA-process front end: the editable table (TableView) with  *)
(* its two hosts (ProjectDetailScreen, UploadScreen/App), the image        *)
(* analysis action (App.handleImageUpload over ChatGPTService), the        *)
(* completion normalizer (ChatGPTService.callChatGPTAPI), the CSV export  *)
(* (ProjectDetailScreen.exportToCSV, ResultDisplay.handleExportCSV), the   *)
(* sorted and filtered view of the table, the navigation of App, the save  *)
(* to the database, the paginated lists (ProjectList,                      *)
(* ProjectManagementScreen) and the Google login flag (Sidebar, App,       *)
(* ProjectDetailScreen.exportToGoogleSheet).                               *)
(***************************************************************************)
EXTENDS Integers, Sequences, FiniteSets, TLC

(***************************************************************************)
(* JavaScript values.  Every value is a tagged record of one shape, so     *)
(* that true, "true", null, undefined, 0 and "" stay distinct.             *)
(***************************************************************************)
Undef == [t |-> "undefined", n |-> 0, s |-> ""]
Null == [t |-> "null", n |-> 0, s |-> ""]
Bool(b) == [t |-> "boolean", n |-> IF b THEN 1 ELSE 0, s |-> ""]
Num(k) == [t |-> "number", n |-> k, s |-> ""]
Str(x) == [t |-> "string", n |-> 0, s |-> x]

\* JavaScript truthiness, as used by `a || b` and `if (a)`.
Truthy(v) ==
  CASE v.t = "undefined" -> FALSE
    [] v.t = "null" -> FALSE
    [] v.t = "boolean" -> v.n = 1
    [] v.t = "number" -> v.n # 0
    [] OTHER -> v.s # ""

\* a || b
JsOr(a, b) == IF Truthy(a) THEN a ELSE b

\* The member of an object, undefined when the object does not carry it.
Member(item, name) == IF name \in DOMAIN item THEN item[name] ELSE Undef

(***************************************************************************)
(* Bounds of the model.                                                    *)
(***************************************************************************)
\* Pending "clear the status message" timers a screen may hold at once.
MaxTimers == 2
\* Field writes (setField) made in one run.
MaxEdits == 2
\* Clicks on Save made in one run.
MaxSaves == 2
\* Clicks on Save to DB made in one run.
MaxDbSaves == 1
\* Calls of handleImageUpload made in one run.
MaxRequests == 2
\* Files the user can pick from.
MaxFiles == 2
\* Elements of the arrays in the completions that are normalized.
MaxElems == 2

VARIABLES
  \* --- which screen hosts the table; backend ------------------------------
  host,                     \* "detail" (ProjectDetailScreen) or "upload" (UploadScreen)
  processedItems,           \* selectedProject.processedItems (App.selectedProject)
  serverItems,              \* the rows the backend holds for the project
  \* --- App state ------------------------------------------------------------
  results,                  \* App.results
  isProcessing,             \* App.isProcessing
  errorMessage,             \* App.errorMessage
  dbMessage,                \* App.dbMessage
  saveMessage,              \* saveMessage of the hosting screen / App
  clearTimers,              \* pending setTimeout(() => setSaveMessage(''))
  \* --- UploadScreen state ---------------------------------------------------
  autoDataSourcePrediction,
  \* --- TableView state ------------------------------------------------------
  isEditing, editedItems, isSaving,
  \* --- ProjectDetailScreen.handleSave in flight ------------------------------
  pdIsSaving,               \* ProjectDetailScreen.isSaving
  savePc,                   \* "idle" | "update" (PUT in flight) | "refresh" (GET in flight)
  savePayload,              \* updatedItems captured by the handleSave closure
  \* --- history of the run (not program state) --------------------------------
  lastOp,                   \* the last table operation that acted
  baseB,                    \* the record set shown when edit mode was entered
  extSince,                 \* the host replaced the record set since edit mode was entered
  touched,                  \* a field was written since edit mode was entered
  nEdits, nSaves,           \* field writes and Save clicks made so far
  lastWrite,                \* the last call of handleFieldChange of the edit session
  \* --- CSV export ---------------------------------------------------------------
  csvContent,               \* the text of the file downloaded last
  exportedAt,               \* history: the table as it was when that file was made
  \* --- the view of the table ------------------------------------------------------
  sortField, sortDirection, \* TableView.sortField, TableView.sortDirection
  searchTerm,               \* TableView.searchTerm
  sortEngine,               \* the Array.prototype.sort of the browser that runs the build
  \* --- navigation ---------------------------------------------------------------
  currentView,              \* App.currentView
  \* --- saving to the database -----------------------------------------------------
  isSavingToDB,             \* TableView.isSavingToDB
  dbSaves,                  \* the POSTs of saveToDatabase that have not resolved
  dbTimers,                 \* pending setTimeout(() => setDbMessage(''))
  lastPost,                 \* history: the request body of the last POST of saveToDatabase
  resultsOrigin,            \* history: the call of handleImageUpload that gave App.results
  staleTimers,              \* history: the pending clear timers older than saveMessage
  \* --- the paginated lists ------------------------------------------------------
  listKind,                 \* "history" (ProjectList) | "management" (ProjectManagementScreen)
  projects,                 \* projects: how many rows of each kind the list holds
  loading, error,           \* loading, error of the list
  selectedProject,          \* the project filter
  selectedScreen,           \* the screen filter
  currentPage,              \* currentPage
  itemsPerPage,             \* itemsPerPage
  \* --- the Google login flag ----------------------------------------------------
  googleFlag,               \* localStorage.getItem('google_sheet_logged_in')
  isGoogleLoggedIn,         \* Sidebar.isGoogleLoggedIn
  statusChecks,             \* requests of GET /google-sheet/oauth/status not resolved
  exportPc,                 \* where exportToGoogleSheet stands: "idle" | "create" | "put"
  googleSheetUrl,           \* ProjectDetailScreen.googleSheetUrl
  effectsRan,               \* the mount effects of App and Sidebar have run
  lastEvent,                \* history: the last event dispatched on window
  loginOp,                  \* history: the last step that concerns the login flag
  \* --- analysis of an image ---------------------------------------------------
  uploadUi,                 \* "UploadScreen" (read-file button) | "ImageUploader" (drop area)
  service,                  \* "current" (ChatGPTService with the parse attempts) | "legacy"
  isValidApiKey,            \* ChatGPTService.isValidApiKey
  calls,                    \* the calls of handleImageUpload that have not returned
  nCalls,                   \* calls of handleImageUpload made so far
  selectedFile,             \* UploadScreen.selectedFile (0: none)
  targetChosen,             \* selectedProject and selectedScreen are both set
  isUploading,              \* UploadScreen.isUploading
  uploads,                  \* files whose POST /upload has not resolved
  uploadedUrl,              \* UploadScreen.uploadedUrl: the file it points to (0: none)
  lastFailure,              \* what the service call of the last returned analysis threw
  \* --- normalization of one completion ------------------------------------------
  completion,               \* choice.message.content
  jsonContent,              \* the text handed to the parse attempts
  normalized,               \* what callChatGPTAPI makes of the completion
  legacyNormalized          \* what the legacy callChatGPTAPI makes of it

tableVars == <<isEditing, editedItems, isSaving>>
detailVars == <<processedItems, serverItems, pdIsSaving, savePc, savePayload>>
appVars == <<results, isProcessing, errorMessage, dbMessage, saveMessage, clearTimers>>
uploadVars == <<autoDataSourcePrediction>>
histVars == <<lastOp, baseB, extSince, touched, nEdits, nSaves, lastWrite>>
analysisVars ==
  <<uploadUi, service, isValidApiKey, calls, nCalls, selectedFile, targetChosen, isUploading,
    uploads, uploadedUrl, lastFailure>>
normVars == <<completion, jsonContent, normalized, legacyNormalized>>
csvVars == <<csvContent, exportedAt>>
viewVars == <<sortField, sortDirection, searchTerm, sortEngine>>
navVars == <<currentView>>
dbVars == <<isSavingToDB, dbSaves, dbTimers, lastPost>>
pageVars ==
  <<listKind, projects, loading, error, selectedProject, selectedScreen, currentPage,
    itemsPerPage>>
loginVars ==
  <<googleFlag, isGoogleLoggedIn, statusChecks, exportPc, googleSheetUrl, effectsRan,
    lastEvent, loginOp>>
sideVars == <<pageVars, loginVars>>
restVars == <<viewVars, navVars, dbVars, resultsOrigin, sideVars>>
otherVars == <<restVars, staleTimers>>
vars ==
  <<host, tableVars, detailVars, appVars, uploadVars, histVars, analysisVars, normVars, csvVars,
    otherVars>>

(***************************************************************************)
(* TableView (src/components/shared/TableView.tsx)                         *)
(***************************************************************************)
\* No file has been downloaded.
NoExport == [by |-> "", editing |-> FALSE, baseline |-> <<>>, scratch |-> <<>>, threw |-> FALSE]
CsvIdle == csvContent = <<>> /\ exportedAt = NoExport

\* The view as TableView constructs it (lines 125-127), in a browser with TimSort.
ViewIdle ==
  /\ sortField = "id" /\ sortDirection = "asc" /\ searchTerm = ""
  /\ sortEngine = "TimSort"

\* The screen that hosts the table is the one shown.
NavIdle == currentView = (IF host = "detail" THEN "project-detail" ELSE "upload")

\* No request of saveToDatabase has been made.
NoPost ==
  [sent |-> FALSE, screenId |-> 0, imageUrl |-> 0, results |-> <<>>, of |-> 0, rows |-> <<>>]
DbIdle == isSavingToDB = FALSE /\ dbSaves = {} /\ dbTimers = 0 /\ lastPost = NoPost

\* The parts of the application the other specifications leave at rest.
\* results was not set by an analysis; else the file that was analysed, and
\* whether the upload screen was left while the request of the analysis was
\* in flight.
NoOrigin == [file |-> 0, abandoned |-> FALSE]

\* The kinds of row a list can hold: the project name and the screen name of
\* the row. The third kind has no project name.
ProjectKinds ==
  { [title |-> "A", source |-> "S"], [title |-> "A", source |-> "T"],
    [title |-> "", source |-> "S"] }
NoProjects == [k \in ProjectKinds |-> 0]

\* A list as its component constructs it (ProjectList.tsx lines 38-46).
PageIdle ==
  /\ listKind = "history" /\ projects = NoProjects /\ loading = TRUE /\ error = ""
  /\ selectedProject = "All" /\ selectedScreen = "All"
  /\ currentPage = 1 /\ itemsPerPage = 20

\* No event has been dispatched on window.
NoEvent == [type |-> "", key |-> Undef, newValue |-> Undef]

\* Nobody is logged in to Google, the mount effects have been run.
LoginIdle ==
  /\ googleFlag = Null /\ isGoogleLoggedIn = FALSE /\ statusChecks = 0
  /\ exportPc = "idle" /\ googleSheetUrl = "" /\ effectsRan = TRUE
  /\ lastEvent = NoEvent /\ loginOp = "init"

CoreIdle ==
  ViewIdle /\ NavIdle /\ DbIdle /\ resultsOrigin = NoOrigin /\ staleTimers = 0

OtherIdle == CoreIdle /\ PageIdle /\ LoginIdle

\* No call of handleFieldChange in the running edit session.
NoWrite == [id |-> Undef, field |-> "", raw |-> ""]

\* One row of the table: the fields the editors write, and the type and the
\* description, which the export reads as well.
Item(id, content, database, required) ==
  [id |-> Num(id), content |-> Str(content), database |-> database, required |-> required,
   type |-> Str("Button"), description |-> Str("d")]

\* The `items` prop the hosting screen passes to TableView.
UploadItems(res, auto) ==
  [i \in 1..Len(res) |-> [res[i] EXCEPT !.database = IF auto THEN Str("-") ELSE res[i].database]]

\* The `items` prop of the upload screen built on ImageUploader: nine members
\* for each row, io and required are not among them.
LegacyUploadItems(res) ==
  [i \in 1..Len(res) |->
     [id |-> res[i].id, itemId |-> res[i].id, content |-> res[i].content,
      type |-> res[i].type, database |-> res[i].database,
      description |-> res[i].description, imageProcessingResultId |-> Num(0),
      dataType |-> Member(res[i], "dataType"), dbField |-> Member(res[i], "dbField")]]

Items ==
  IF host = "detail" THEN processedItems
  ELSE IF uploadUi = "ImageUploader" THEN LegacyUploadItems(results)
  ELSE UploadItems(results, autoDataSourcePrediction)

\* The table is rendered: always on the detail screen, on the upload screen only
\* in the results branch of the right panel.
TableMounted ==
  \/ host = "detail"
  \/ /\ host = "upload" /\ currentView = "upload"
     /\ ~isProcessing /\ dbMessage = "" /\ Len(results) > 0

\* const currentItems = isEditing ? editedItems : items
CurrentItems == IF isEditing THEN editedItems ELSE Items

requiredToString(value) ==
  IF value = Bool(TRUE) THEN "true" ELSE IF value = Bool(FALSE) THEN "false" ELSE "null"

\* A conversion of the dropdown string that knows two states only.
stringToRequiredAsBoolean(value) == Bool(value = "true")

stringToRequired(value) ==
  IF value = "true" THEN Bool(TRUE) ELSE IF value = "false" THEN Bool(FALSE) ELSE Null

\* What each editor hands to handleFieldChange for the text the user enters.
EditorValue(field, raw) ==
  CASE field = "database" -> (IF raw = "-" THEN Null ELSE Str(raw))
    [] field = "required" -> stringToRequired(raw)
    [] OTHER -> Str(raw)

\* The texts an editor can produce for a field.
EditorInputs(field) ==
  CASE field = "database" -> {"-", "db"}
    [] field = "required" -> {"true", "false", "null"}
    [] OTHER -> {"a", "b"}

EditableFields == {"content", "database", "required"}

\* A write that sets the field in every row, whatever its id.
HandleFieldChangeEveryRow(prev, id, field, value) ==
  [i \in 1..Len(prev) |-> [prev[i] EXCEPT ![field] = value]]

\* prev.map(item => item.id === id ? { ...item, [field]: value } : item)
HandleFieldChange(prev, id, field, value) ==
  [i \in 1..Len(prev) |->
     IF prev[i].id = id THEN [prev[i] EXCEPT ![field] = value] ELSE prev[i]]

\* The mutation a write "item[field] = value" on the shared row objects would make.
BaselineWrittenInPlace(base, id, field, value) == HandleFieldChange(base, id, field, value)

\* What handleFieldChange does to the rows of `items`, which editedItems = [...items]
\* shares: nothing, the changed row is a fresh object.
BaselineAfterFieldChange(base, id, field, value) == base

TV_handleEdit ==
  /\ TableMounted /\ ~isEditing
  /\ editedItems' = Items
  /\ isEditing' = TRUE
  /\ lastOp' = "edit" /\ baseB' = Items /\ extSince' = FALSE /\ touched' = FALSE
  /\ lastWrite' = NoWrite
  /\ UNCHANGED <<host, otherVars, csvVars, analysisVars, normVars, isSaving, detailVars, appVars, uploadVars, nEdits, nSaves>>

TV_handleCancel ==
  /\ TableMounted /\ isEditing
  /\ isEditing' = FALSE
  /\ editedItems' = <<>>
  /\ lastOp' = "discard" /\ lastWrite' = NoWrite
  /\ UNCHANGED <<host, otherVars, csvVars, analysisVars, normVars, isSaving, detailVars, appVars, uploadVars, baseB, extSince, touched,
                 nEdits, nSaves>>

TV_handleFieldChange ==
  /\ TableMounted /\ isEditing
  /\ nEdits < MaxEdits
  /\ \E i \in 1..Len(editedItems), field \in EditableFields :
       \E raw \in EditorInputs(field) :
         LET id == editedItems[i].id
             value == EditorValue(field, raw)
         IN /\ editedItems' = HandleFieldChange(editedItems, id, field, value)
            /\ processedItems' = BaselineAfterFieldChange(processedItems, id, field, value)
            /\ lastWrite' = [id |-> id, field |-> field, raw |-> raw]
  /\ lastOp' = "setField" /\ touched' = TRUE /\ nEdits' = nEdits + 1
  /\ UNCHANGED <<host, otherVars, csvVars, analysisVars, normVars, isEditing, isSaving, serverItems, pdIsSaving, savePc, savePayload,
                 appVars, uploadVars, baseB, extSince, nSaves>>

\* An id none of the rows of a table carries.
UnknownId == Num(9)

\* handleFieldChange called with an id that no row of editedItems carries. The
\* editors of the rendered rows pass the id of their own row; the function takes
\* the id as a parameter and maps over the rows whatever it is.
TV_handleFieldChange_unknownId ==
  /\ TableMounted /\ isEditing
  /\ nEdits < MaxEdits
  /\ \A i \in 1..Len(editedItems) : editedItems[i].id # UnknownId
  /\ \E field \in {"content"} :
       \E raw \in EditorInputs(field) \ {"b"} :
         LET value == EditorValue(field, raw)
         IN /\ editedItems' = HandleFieldChange(editedItems, UnknownId, field, value)
            /\ processedItems' = BaselineAfterFieldChange(processedItems, UnknownId, field, value)
            /\ lastWrite' = [id |-> UnknownId, field |-> field, raw |-> raw]
  /\ lastOp' = "setField" /\ nEdits' = nEdits + 1
  /\ UNCHANGED <<host, otherVars, csvVars, analysisVars, normVars, isEditing, isSaving, serverItems, pdIsSaving, savePc, savePayload,
                 appVars, uploadVars, baseB, extSince, touched, nSaves>>

(***************************************************************************)
(* Saving the edited rows.                                                 *)
(***************************************************************************)
\* UploadScreen's onSave: with auto prediction on, a row still showing "-"
\* gets back the database of the result it came from.
ItemsToSave(updatedItems, res, auto) ==
  [i \in 1..Len(updatedItems) |->
     LET item == updatedItems[i]
         orig == {r \in 1..Len(res) : res[r].id = item.id}
         first == CHOOSE r \in orig : \A q \in orig : r <= q
     IN IF auto /\ item.database = Str("-")
          THEN [item EXCEPT !.database =
                  IF orig # {} THEN JsOr(res[first].database, item.database)
                  ELSE item.database]
          ELSE item]

\* A continuation of handleSave without its finally block.
SaveReturnedWithoutFinally ==
  /\ isEditing' = FALSE
  /\ editedItems' = <<>>
  /\ UNCHANGED isSaving

\* TableView.handleSave after `await onSave(editedItems)` returned normally:
\* setIsEditing(false); setEditedItems([]); finally setIsSaving(false).
SaveReturned ==
  /\ isEditing' = FALSE
  /\ editedItems' = <<>>
  /\ isSaving' = FALSE

\* The variant of the continuation in which onSave rejected (the catch branch).
SaveRejected ==
  /\ UNCHANGED <<isEditing, editedItems>>
  /\ isSaving' = FALSE

\* Click on Save, detail screen: TableView.handleSave runs up to its await, inside
\* it ProjectDetailScreen.handleSave runs up to `await updateProjectDetail(...)`.
TV_handleSave_detail ==
  /\ host = "detail" /\ TableMounted /\ isEditing /\ ~isSaving
  /\ savePc = "idle"
  /\ clearTimers < MaxTimers /\ nSaves < MaxSaves
  /\ isSaving' = TRUE
  /\ pdIsSaving' = TRUE
  /\ saveMessage' = ""
  /\ savePayload' = editedItems
  /\ savePc' = "update"
  /\ lastOp' = "save" /\ nSaves' = nSaves + 1
  /\ UNCHANGED <<host, otherVars, csvVars, analysisVars, normVars, isEditing, editedItems, processedItems, serverItems, results,
                 isProcessing, errorMessage, dbMessage, clearTimers, uploadVars,
                 baseB, extSince, touched, nEdits, lastWrite>>

\* updateProjectDetail resolves; it never rejects: a failed or refused PUT gives
\* { success: false }, which handleSave throws and catches itself.
PD_updateResolves ==
  /\ savePc = "update"
  /\ \E success \in BOOLEAN :
       IF success
         THEN /\ serverItems' = savePayload
              /\ saveMessage' = "Successfully updated project"
              /\ staleTimers' = clearTimers
              /\ savePc' = "refresh"
              /\ UNCHANGED <<isEditing, editedItems, isSaving, pdIsSaving, clearTimers, lastOp,
                             lastWrite>>
         ELSE /\ saveMessage' = "Loi: Failed to update project"
              /\ staleTimers' = clearTimers
              /\ clearTimers' = clearTimers + 1
              /\ pdIsSaving' = FALSE
              /\ savePc' = "idle"
              /\ SaveReturned
              /\ lastOp' = "commitFail" /\ lastWrite' = NoWrite
              /\ UNCHANGED serverItems
  /\ UNCHANGED <<host, restVars, csvVars, analysisVars, normVars, processedItems, savePayload, results, isProcessing, errorMessage,
                 dbMessage, uploadVars, baseB, extSince, touched, nEdits, nSaves>>

\* getProject resolves with the project, resolves with null (404) or rejects; the
\* rest of handleSave and of TableView.handleSave follows.
PD_refreshResolves ==
  /\ savePc = "refresh"
  /\ \E outcome \in {"project", "null", "reject"} :
       IF outcome = "project"
         THEN processedItems' = serverItems /\ extSince' = TRUE
         ELSE UNCHANGED <<processedItems, extSince>>
  /\ clearTimers' = clearTimers + 1
  /\ pdIsSaving' = FALSE
  /\ savePc' = "idle"
  /\ SaveReturned
  /\ lastOp' = "commitOk" /\ lastWrite' = NoWrite
  /\ UNCHANGED <<host, otherVars, csvVars, analysisVars, normVars, serverItems, savePayload, results, isProcessing, errorMessage,
                 dbMessage, saveMessage, uploadVars, baseB, touched, nEdits, nSaves>>

\* Click on Save, upload screen: onSave maps the rows and App.handleSaveResults
\* stores them; nothing is awaited on the way, the handler completes in one step.
TV_handleSave_upload ==
  /\ host = "upload" /\ TableMounted /\ isEditing /\ ~isSaving
  /\ clearTimers < MaxTimers /\ nSaves < MaxSaves
  /\ results' = ItemsToSave(editedItems, results, autoDataSourcePrediction)
  /\ savePayload' = editedItems
  /\ saveMessage' = "Results updated successfully!"
  /\ staleTimers' = clearTimers
  /\ clearTimers' = clearTimers + 1
  /\ SaveReturned
  /\ lastOp' = "commitOk" /\ extSince' = TRUE /\ nSaves' = nSaves + 1 /\ lastWrite' = NoWrite
  /\ UNCHANGED <<host, restVars, csvVars, analysisVars, normVars, processedItems, serverItems, pdIsSaving, savePc, isProcessing,
                 errorMessage, dbMessage, uploadVars, baseB, touched, nEdits>>

\* setTimeout(() => setSaveMessage(''), ...) fires: a timer that was started
\* before the message was set, or one started after. The timers are never
\* cancelled and their delays differ (3 s after a success, 5 s after a
\* failure), so any of the pending ones can be the next to fire.
ClearTimerFires ==
  /\ clearTimers > 0
  /\ clearTimers' = clearTimers - 1
  /\ saveMessage' = ""
  /\ \E stale \in BOOLEAN :
       /\ IF stale THEN staleTimers > 0 ELSE clearTimers > staleTimers
       /\ staleTimers' = (IF stale THEN staleTimers - 1 ELSE staleTimers)
  /\ UNCHANGED <<host, restVars, csvVars, analysisVars, normVars, tableVars, detailVars, results, isProcessing, errorMessage,
                 dbMessage, uploadVars, histVars>>

\* The checkbox "Auto Data Source Prediction" of the upload screen.
US_toggleAutoDataSource ==
  /\ host = "upload"
  /\ autoDataSourcePrediction' = ~autoDataSourcePrediction
  /\ extSince' = TRUE
  /\ UNCHANGED <<host, otherVars, csvVars, analysisVars, normVars, tableVars, detailVars, appVars, lastOp, baseB, touched, nEdits, nSaves, lastWrite>>

(***************************************************************************)
(* The table specification: one table on one of its two hosts.             *)
(***************************************************************************)
\* The outcome of a call of callChatGPTAPI that has not been made.
NotRun ==
  [ok |-> FALSE, records |-> <<>>, attempt |-> 0, name |-> "none", message |-> "",
   rawResponse |-> <<>>]

\* No analysis and no upload under way, nothing selected.
AnalysisIdle ==
  /\ uploadUi = "UploadScreen" /\ service = "current" /\ isValidApiKey = TRUE
  /\ calls = {} /\ nCalls = 0
  /\ selectedFile = 0 /\ targetChosen = FALSE /\ isUploading = FALSE /\ uploads = {}
  /\ uploadedUrl = 0 /\ lastFailure = ""

\* No completion at hand.
NormIdle ==
  /\ completion = <<>> /\ jsonContent = <<>>
  /\ normalized = NotRun /\ legacyNormalized = NotRun

\* Record sets a project or an analysis can hold when the table opens.
Baselines ==
  { <<Item(1, "a", Str("db"), Bool(TRUE)), Item(2, "b", Null, Null)>>,
    <<Item(1, "a", Null, Bool(FALSE))>> }

TableOpen ==
  /\ host \in {"detail", "upload"}
  /\ \E b \in Baselines :
       /\ processedItems = (IF host = "detail" THEN b ELSE <<>>)
       /\ serverItems = (IF host = "detail" THEN b ELSE <<>>)
       /\ results = (IF host = "upload" THEN b ELSE <<>>)
       /\ baseB = b
  /\ isProcessing = FALSE /\ errorMessage = "" /\ dbMessage = "" /\ saveMessage = ""
  /\ clearTimers = 0
  /\ autoDataSourcePrediction = FALSE
  /\ isEditing = FALSE /\ editedItems = <<>> /\ isSaving = FALSE
  /\ pdIsSaving = FALSE /\ savePc = "idle" /\ savePayload = <<>>
  /\ lastOp = "init" /\ extSince = FALSE /\ touched = FALSE
  /\ nEdits = 0 /\ nSaves = 0 /\ lastWrite = NoWrite
  /\ CsvIdle
  /\ AnalysisIdle
  /\ NormIdle

InitTable == TableOpen /\ OtherIdle

NextTable ==
  \/ TV_handleEdit
  \/ TV_handleCancel
  \/ TV_handleFieldChange
  \/ TV_handleFieldChange_unknownId
  \/ TV_handleSave_detail
  \/ PD_updateResolves
  \/ PD_refreshResolves
  \/ TV_handleSave_upload
  \/ ClearTimerFires
  \/ US_toggleAutoDataSource

SpecTable == InitTable /\ [][NextTable]_vars

(***************************************************************************)
(* Completion text.  A completion is a sequence of tokens: the markdown    *)
(* fence, the word json, a line break, a word of prose, the JSON           *)
(* punctuation, a JSON number, a quoted key with its colon, and a whole    *)
(* flat object literal {"id":..,"content":..,...} carrying its members.    *)
(***************************************************************************)
\* The members an object literal of a completion may carry (undefined = absent).
NoMembers ==
  [id |-> Undef, itemId |-> Undef, order |-> Undef, content |-> Undef, type |-> Undef,
   database |-> Undef, dataSource |-> Undef, description |-> Undef,
   imageProcessingResultId |-> Undef, dataType |-> Undef, dbField |-> Undef,
   io |-> Undef, inputOutput |-> Undef, required |-> Undef]

T(sym) == [k |-> "sym", sym |-> sym, obj |-> NoMembers]
O(members) == [k |-> "obj", sym |-> "", obj |-> members]

FENCE == T("fence")
JSONTAG == T("json")
NL == T("\n")
PROSE == T("text")
LBRACK == T("[")
RBRACK == T("]")
LBRACE == T("{")
RBRACE == T("}")
COMMA == T(",")
NUMBER == T("1")
KEY_ITEMS == T("\"items\":")
KEY_META == T("\"meta\":")
NULLTOK == T("null")
\* The tail of an object cut off inside a string: "content": "Name", "type": "Inp
FRAGMENT == T("\"content\": \"Name\", \"type\": \"Inp")

IsWs(tok) == tok = NL
\* The token's text begins with "{" / ends with "}".
OpensBrace(tok) == tok = LBRACE \/ tok.k = "obj"
ClosesBrace(tok) == tok = RBRACE \/ tok.k = "obj"

SubSeqFrom(s, a) == SubSeq(s, a, Len(s))
\* The positions of a token in a text.
PositionsOf(s, tok) == {i \in 1..Len(s) : s[i] = tok}
BraceOpens(s) == {i \in 1..Len(s) : OpensBrace(s[i])}
BraceCloses(s) == {i \in 1..Len(s) : ClosesBrace(s[i])}
MinOf(S) == CHOOSE x \in S : \A y \in S : x <= y
MaxOf(S) == CHOOSE x \in S : \A y \in S : x >= y

\* String.prototype.trim
Trim(s) ==
  LET keep == {i \in 1..Len(s) : ~IsWs(s[i])}
  IN IF keep = {} THEN <<>> ELSE SubSeq(s, MinOf(keep), MaxOf(keep))

\* First position at or after i that holds no white space (Len(s)+1 if none).
SkipWs(s, i) ==
  LET stop == {j \in i..Len(s) : ~IsWs(s[j])}
  IN IF stop = {} THEN Len(s) + 1 ELSE MinOf(stop)

\* ^ under the m flag: the start of the text or of a line.
LineStart(s, i) == i = 1 \/ (i > 1 /\ s[i - 1] = NL)

\* End of the opening-fence pattern ```(?:json|JSON)?\s*\n? matched at position a
\* (the position after its last token).
FenceHeadEnd(s, a) ==
  LET afterTag == IF a + 1 <= Len(s) /\ s[a + 1] = JSONTAG THEN a + 2 ELSE a + 1
  IN SkipWs(s, afterTag)

\* jsonContent.replace(opening-fence pattern, empty string), line 365
RemoveOpeningFence(s) ==
  LET at == {i \in 1..Len(s) : s[i] = FENCE /\ LineStart(s, i)}
  IN IF at = {} THEN s
     ELSE LET a == MinOf(at)
          IN SubSeq(s, 1, a - 1) \o SubSeqFrom(s, FenceHeadEnd(s, a))

\* \s*$ under the m flag can match at q: the text ends there or a line break follows.
LineEndAt(s, q) == q > Len(s) \/ s[q] = NL
\* Position after the white space \s*$ consumes from q: all of it when the text
\* ends with it, else all but the line break that $ stands before.
LineEndSpan(s, q) ==
  LET r == SkipWs(s, q)
  IN IF r > Len(s) THEN r ELSE IF r > q THEN r - 1 ELSE q

\* jsonContent.replace(closing-fence pattern, empty string), line 366
RemoveClosingFence(s) ==
  LET withNl == {i \in 1..Len(s) : /\ s[i] = NL /\ i + 1 <= Len(s) /\ s[i + 1] = FENCE
                                   /\ LineEndAt(s, i + 2)}
      bare == {i \in 1..Len(s) : s[i] = FENCE /\ LineEndAt(s, i + 1)}
      at == withNl \cup bare
  IN IF at = {} THEN s
     ELSE LET a == MinOf(at)
              f == IF a \in withNl THEN a + 1 ELSE a
          IN SubSeq(s, 1, a - 1) \o SubSeqFrom(s, LineEndSpan(s, f + 1))

\* jsonContent.match(/```(?:json|JSON)?\s*\n?([\s\S]*?)\n?```/): the group, when
\* two fences are left in the text.
CodeBlockMatch(s) ==
  LET fences == {i \in 1..Len(s) : s[i] = FENCE}
      a == MinOf(fences)
      \* the head may give back the tag, but the closing fence lies after the first
      closing == {i \in fences : i > a}
      b == MinOf(closing)
      h == IF FenceHeadEnd(s, a) <= b THEN FenceHeadEnd(s, a) ELSE b
      e == IF b - 1 >= h /\ s[b - 1] = NL THEN b - 2 ELSE b - 1
  IN IF Cardinality(fences) < 2 THEN [matched |-> FALSE, group |-> <<>>]
     ELSE [matched |-> TRUE, group |-> SubSeq(s, h, e)]

\* Lines 371-374: the group of the code block pattern, when it matches.
UseCodeBlock(closed, codeBlockMatch) ==
  IF codeBlockMatch.matched THEN Trim(codeBlockMatch.group) ELSE closed
ExtractCodeBlock(closed) == UseCodeBlock(closed, CodeBlockMatch(closed))
\* Lines 365-375 on the trimmed text.
StripTrimmed(trimmed) ==
  IF \E i \in 1..Len(trimmed) : trimmed[i] = FENCE
    THEN ExtractCodeBlock(RemoveClosingFence(RemoveOpeningFence(trimmed)))
    ELSE trimmed
\* Lines 361-375: the text handed to the parse attempts.
StripFences(content) == StripTrimmed(Trim(content))

(***************************************************************************)
(* JSON.parse over the tokens.  A parsed value is a number, null, an       *)
(* object literal with its members, an array, or an object whose members   *)
(* are quoted keys with values (keys and items run in parallel).           *)
(***************************************************************************)
JNumber == [k |-> "number", obj |-> NoMembers, keys |-> <<>>, items |-> <<>>]
JNull == [k |-> "null", obj |-> NoMembers, keys |-> <<>>, items |-> <<>>]
JObject(members) == [k |-> "object", obj |-> members, keys |-> <<>>, items |-> <<>>]
JArray(items) == [k |-> "array", obj |-> NoMembers, keys |-> <<>>, items |-> items]
JKeyed(keys, items) == [k |-> "keyed", obj |-> NoMembers, keys |-> keys, items |-> items]

ParseFail == [ok |-> FALSE, val |-> JNull, next |-> 0]
ParseOk(val, next) == [ok |-> TRUE, val |-> val, next |-> next]
IsKey(tok) == tok \in {KEY_ITEMS, KEY_META}

RECURSIVE ParseValueAt(_, _), ElementsFrom(_, _, _), MembersFrom(_, _, _, _)
\* One JSON value starting at or after position i0.
ParseValue(s, i0) == ParseValueAt(s, SkipWs(s, i0))

\* What follows a value of an array: ] ends it, a comma goes on.
AfterElement(s, acc, r, j) ==
  IF j > Len(s) THEN ParseFail
  ELSE IF s[j] = RBRACK THEN ParseOk(JArray(Append(acc, r.val)), j + 1)
  ELSE IF s[j] = COMMA THEN ElementsFrom(s, j + 1, Append(acc, r.val))
  ELSE ParseFail
ElementParsed(s, acc, r) ==
  IF r.ok THEN AfterElement(s, acc, r, SkipWs(s, r.next)) ELSE ParseFail
\* value (, value)* ] after an opening bracket.
ElementsFrom(s, i, acc) == ElementParsed(s, acc, ParseValueAt(s, SkipWs(s, i)))

\* What follows a member of an object: } ends it, a comma goes on.
AfterMember(s, keys, vals, r, j) ==
  IF j > Len(s) THEN ParseFail
  ELSE IF s[j] = RBRACE THEN ParseOk(JKeyed(keys, Append(vals, r.val)), j + 1)
  ELSE IF s[j] = COMMA THEN MembersFrom(s, j + 1, keys, Append(vals, r.val))
  ELSE ParseFail
MemberParsed(s, keys, vals, r) ==
  IF r.ok THEN AfterMember(s, keys, vals, r, SkipWs(s, r.next)) ELSE ParseFail
MemberAt(s, k, keys, vals) ==
  IF k > Len(s) THEN ParseFail
  ELSE IF ~IsKey(s[k]) THEN ParseFail
  ELSE MemberParsed(s, Append(keys, s[k]), vals, ParseValueAt(s, SkipWs(s, k + 1)))
\* key value (, key value)* } after an opening brace.
MembersFrom(s, i, keys, vals) == MemberAt(s, SkipWs(s, i), keys, vals)

\* [ was read at i: the empty array, or its elements.
ArrayAt(s, i, j) ==
  IF j <= Len(s) /\ s[j] = RBRACK THEN ParseOk(JArray(<<>>), j + 1)
  ELSE ElementsFrom(s, i + 1, <<>>)
\* { was read at i: the empty object, or its members.
ObjectAt(s, i, j) ==
  IF j <= Len(s) /\ s[j] = RBRACE THEN ParseOk(JKeyed(<<>>, <<>>), j + 1)
  ELSE MembersFrom(s, i + 1, <<>>, <<>>)

\* One JSON value starting at position i, which holds no white space.
ParseValueAt(s, i) ==
  IF i > Len(s) THEN ParseFail
  ELSE IF s[i] = NUMBER THEN ParseOk(JNumber, i + 1)
  ELSE IF s[i] = NULLTOK THEN ParseOk(JNull, i + 1)
  ELSE IF s[i].k = "obj" THEN ParseOk(JObject(s[i].obj), i + 1)
  ELSE IF s[i] = LBRACK THEN ArrayAt(s, i, SkipWs(s, i + 1))
  ELSE IF s[i] = LBRACE THEN ObjectAt(s, i, SkipWs(s, i + 1))
  ELSE ParseFail

WholeValue(s, r) ==
  IF r.ok /\ SkipWs(s, r.next) > Len(s) THEN [ok |-> TRUE, val |-> r.val]
  ELSE [ok |-> FALSE, val |-> JNull]
\* JSON.parse(text): one value and nothing but white space around it.
JSONparse(s) == WholeValue(s, IF s = <<>> THEN ParseFail ELSE ParseValue(s, 1))

(***************************************************************************)
(* The parse attempts of callChatGPTAPI (lines 377-428).                   *)
(***************************************************************************)
RECURSIVE DropAt(_, _, _)
\* The tokens of s from position i on, without those at the positions in D.
DropAt(s, i, D) ==
  IF i > Len(s) THEN <<>>
  ELSE (IF i \in D THEN <<>> ELSE <<s[i]>>) \o DropAt(s, i + 1, D)

\* fixedJson.replace(/,(\s*[}\]])/g, '$1')
RemoveTrailingCommas(s) ==
  DropAt(s, 1, {i \in 1..Len(s) :
                  /\ s[i] = COMMA
                  /\ SkipWs(s, i + 1) <= Len(s)
                  /\ s[SkipWs(s, i + 1)] \in {RBRACK, RBRACE}})

NoMatch == [matched |-> FALSE, group |-> <<>>]
\* jsonContent.match(/(\[[\s\S]*\])/): from the first [ to the last ].
ArrayPatternMatch(s) ==
  LET opens == PositionsOf(s, LBRACK)
      closes == PositionsOf(s, RBRACK)
  IN IF opens = {} \/ closes = {} \/ MaxOf(closes) < MinOf(opens) THEN NoMatch
     ELSE [matched |-> TRUE, group |-> SubSeq(s, MinOf(opens), MaxOf(closes))]

\* The { ... } alternative of /(\{[\s\S]*\}|\[[\s\S]*\])/: from the first { to the last }.
BracePatternMatch(s) ==
  LET opens == BraceOpens(s)
      closes == BraceCloses(s)
  IN IF opens = {} \/ closes = {} \/ MaxOf(closes) < MinOf(opens) THEN NoMatch
     ELSE [matched |-> TRUE, group |-> SubSeq(s, MinOf(opens), MaxOf(closes))]

\* jsonContent.match(/(\{[\s\S]*\}|\[[\s\S]*\])/): the leftmost start wins, and at
\* one start the brace alternative is tried first.
AnyJsonPatternMatch(s) ==
  LET b == BracePatternMatch(s)
      a == ArrayPatternMatch(s)
      bAt == MinOf(BraceOpens(s))
      aAt == MinOf(PositionsOf(s, LBRACK))
  IN IF b.matched /\ a.matched THEN (IF bAt < aAt THEN b ELSE a)
     ELSE IF b.matched THEN b ELSE a

Parsed(val, attempt) == [ok |-> TRUE, val |-> val, attempt |-> attempt, message |-> ""]
ParseThrows(message) == [ok |-> FALSE, val |-> JNull, attempt |-> 0, message |-> message]
MsgCannotParse == "Khong the phan tich du lieu tu ChatGPT"
MsgNoValidData == "ChatGPT khong tra ve du lieu hop le"
MsgWrongFormat == "ChatGPT tra ve du lieu khong dung dinh dang"
MsgTypeError == "TypeError: Cannot read properties of null"

\* Lines 414-426: the any-JSON pattern, tried when the array pattern finds nothing.
AttemptFound(found) ==
  IF found.ok THEN Parsed(found.val, 4) ELSE ParseThrows(MsgCannotParse)
AttemptAnyJson(anyJsonMatch) ==
  IF anyJsonMatch.matched THEN AttemptFound(JSONparse(anyJsonMatch.group))
  ELSE ParseThrows(MsgNoValidData)
\* Lines 390-408: the array pattern, as it is and without its trailing commas.
AttemptFixed(fixed) ==
  IF fixed.ok THEN Parsed(fixed.val, 3) ELSE ParseThrows(MsgCannotParse)
AttemptExtracted(group, extracted) ==
  IF extracted.ok THEN Parsed(extracted.val, 2)
  ELSE AttemptFixed(JSONparse(RemoveTrailingCommas(group)))
AttemptArray(text, jsonMatch) ==
  IF jsonMatch.matched THEN AttemptExtracted(jsonMatch.group, JSONparse(jsonMatch.group))
  ELSE AttemptAnyJson(AnyJsonPatternMatch(text))
AttemptWhole(text, whole) ==
  IF whole.ok THEN Parsed(whole.val, 1) ELSE AttemptArray(text, ArrayPatternMatch(text))
\* Lines 378-428.  attempt: 1 the whole text, 2 the array pattern, 3 the array
\* pattern without trailing commas, 4 any JSON object / array pattern.
ParseAttempts(text) == AttemptWhole(text, JSONparse(text))

\* Lines 430-448: the array itself, or the array under one of the keys
\* results / items / data / array of a parsed object (KEY_ITEMS stands for them).
UnwrapArray(parsed) ==
  LET at == {i \in 1..Len(parsed.keys) :
               parsed.keys[i] = KEY_ITEMS /\ parsed.items[i].k = "array"}
      \* a repeated key keeps its last value
      last == {i \in 1..Len(parsed.keys) : parsed.keys[i] = KEY_ITEMS}
  IN IF parsed.k = "array" THEN [ok |-> TRUE, items |-> parsed.items]
     ELSE IF parsed.k = "keyed" /\ last # {} /\ MaxOf(last) \in at
       THEN [ok |-> TRUE, items |-> parsed.items[MaxOf(last)].items]
     ELSE [ok |-> FALSE, items |-> <<>>]

(***************************************************************************)
(* The record mapping of callChatGPTAPI (lines 450-505).                   *)
(***************************************************************************)
\* String.prototype.trim / toLowerCase on the strings the io member takes here.
StrTrim(x) == IF x = " input " THEN "input" ELSE IF x = "  " THEN "" ELSE x
StrToLowerCase(x) ==
  IF x \in {"Input", "INPUT", "input"} THEN "input"
  ELSE IF x \in {"Output", "OUTPUT", "output"} THEN "output"
  ELSE IF x \in {"Action", "ACTION", "action", "aCtIoN"} THEN "action"
  ELSE IF x \in {"Button", "BUTTON"} THEN "button"
  ELSE IF x = "Text" THEN "text"
  ELSE IF x = "Radio button" THEN "radio button"
  ELSE IF x = "Label" THEN "label"
  ELSE IF x = "Textbox" THEN "textbox"
  ELSE IF x = "Number" THEN "number"
  ELSE IF x = "Dropdown" THEN "dropdown"
  ELSE IF x = "Icon" THEN "icon"
  ELSE IF x = "Image" THEN "image"
  ELSE IF x = "Toggle" THEN "toggle"
  ELSE IF x = "Hyperlink" THEN "hyperlink"
  ELSE x

\* A mapping of required that keeps only whether the member is truthy.
RequiredAsTruthy(v) == Bool(Truthy(v))

\* Lines 452-457
NormalizeRequired(v) ==
  IF v = Bool(TRUE) \/ v = Bool(FALSE) THEN v
  ELSE IF v = Null THEN Null
  ELSE Bool(FALSE)

\* An io handling that accepts only the three canonical spellings.
NormalizeIoExactOnly(item) ==
  IF item.io \in {Str("Input"), Str("Output"), Str("Action")} THEN item.io ELSE Str("Output")

\* Lines 460-489 (the members IO and InputOutput are read like inputOutput)
NormalizeIo(item) ==
  LET ioValue == JsOr(item.io, item.inputOutput)
      ioTrimmed == StrTrim(ioValue.s)
      ioLower == StrToLowerCase(ioTrimmed)
  IN IF Truthy(ioValue)
       THEN IF ioValue.t = "string"
              THEN IF ioTrimmed \in {"Input", "Output", "Action"} THEN Str(ioTrimmed)
                   ELSE IF ioLower = "input" THEN Str("Input")
                   ELSE IF ioLower = "output" THEN Str("Output")
                   ELSE IF ioLower = "action" THEN Str("Action")
                   ELSE Str("Output")
              ELSE Str("Output")
       ELSE Str("Output")

\* A mapping that copies the members and defaults none of them.
MapItemWithoutDefaults(item, index) ==
  [id |-> item.id, itemId |-> item.itemId, order |-> item.order, content |-> item.content,
   type |-> item.type, database |-> item.database, description |-> item.description,
   imageProcessingResultId |-> item.imageProcessingResultId, dataType |-> item.dataType,
   dbField |-> item.dbField, io |-> item.io, required |-> item.required]

\* A mapping that takes the database from the member dataSource alone.
MapItemDatabaseFromDataSource(item, index) ==
  [id |-> JsOr(item.id, Num(index + 1)),
   itemId |-> JsOr(item.itemId, Num(index + 1)),
   order |-> JsOr(item.order, Num(index + 1)),
   content |-> JsOr(item.content, Str("Unknown")),
   type |-> JsOr(item.type, Str("Text")),
   database |-> JsOr(item.dataSource, Str("unknown_db")),
   description |-> JsOr(item.description, Str("No description")),
   imageProcessingResultId |-> JsOr(item.imageProcessingResultId, Num(0)),
   dataType |-> JsOr(item.dataType, Str("string")),
   dbField |-> JsOr(item.dbField, Str("content_field")),
   io |-> NormalizeIo(item),
   required |-> NormalizeRequired(item.required)]

\* Lines 491-504: the record made of the element at array position index (0-based).
MapItem(item, index) ==
  [id |-> JsOr(item.id, Num(index + 1)),
   itemId |-> JsOr(item.itemId, Num(index + 1)),
   order |-> JsOr(item.order, Num(index + 1)),
   content |-> JsOr(item.content, Str("Unknown")),
   type |-> JsOr(item.type, Str("Text")),
   database |-> JsOr(JsOr(item.database, item.dataSource), Str("unknown_db")),
   description |-> JsOr(item.description, Str("No description")),
   imageProcessingResultId |-> JsOr(item.imageProcessingResultId, Num(0)),
   dataType |-> JsOr(item.dataType, Str("string")),
   dbField |-> JsOr(item.dbField, Str("content_field")),
   io |-> NormalizeIo(item),
   required |-> NormalizeRequired(item.required)]

\* item.member for an element of the parsed array: the members of an object
\* literal; undefined for every member of a number, an array or a keyed object.
MembersOf(val) == IF val.k = "object" THEN val.obj ELSE NoMembers

\* parsedResults.map(...), line 450; reading a member of null throws.
MapResults(items) == [i \in 1..Len(items) |-> MapItem(MembersOf(items[i]), i - 1)]

Returned(records, attempt) ==
  [ok |-> TRUE, records |-> records, attempt |-> attempt, name |-> "", message |-> "",
   rawResponse |-> <<>>]
\* throw new Error(message): the parse and shape errors carry a message only.
Thrown(name, message) ==
  [ok |-> FALSE, records |-> <<>>, attempt |-> 0, name |-> name, message |-> message,
   rawResponse |-> <<>>]

\* Lines 444-508
MapArray(array, attempt) ==
  IF ~array.ok THEN Thrown("ShapeError", MsgWrongFormat)
  ELSE IF \E i \in 1..Len(array.items) : array.items[i].k = "null"
    THEN Thrown("TypeError", MsgTypeError)
  ELSE Returned(MapResults(array.items), attempt)
\* Lines 430-508
MapParsed(parsed) ==
  IF parsed.ok THEN MapArray(UnwrapArray(parsed.val), parsed.attempt)
  ELSE Thrown("ParseError", parsed.message)
\* Lines 361-508: from the completion text to the records.
NormalizeContent(content) == MapParsed(ParseAttempts(StripFences(content)))

(***************************************************************************)
(* The earlier service, services/chatgptService.ts (lines 283-367).        *)
(***************************************************************************)
NoRecordFields ==
  [id |-> Undef, itemId |-> Undef, order |-> Undef, content |-> Undef, type |-> Undef,
   database |-> Undef, description |-> Undef, imageProcessingResultId |-> Undef,
   dataType |-> Undef, dbField |-> Undef, io |-> Undef, required |-> Undef]

\* Lines 288-296
LegacyMapItem(item, index) ==
  [NoRecordFields EXCEPT
     !.id = JsOr(item.id, Num(index + 1)),
     !.content = JsOr(item.content, Str("Unknown")),
     !.type = JsOr(item.type, Str("Other")),
     !.database = JsOr(item.database, Str("unknown_db")),
     !.description = JsOr(item.description, Str("No description available")),
     !.dataType = JsOr(item.dataType, Str("string")),
     !.dbField = JsOr(item.dbField, Str("content_field"))]

\* Lines 326-336
LegacyMapExtracted(item, index) ==
  [LegacyMapItem(item, index) EXCEPT
     !.itemId = JsOr(item.itemId, Num(index + 1)),
     !.imageProcessingResultId = JsOr(item.imageProcessingResultId, Num(0))]

\* Lines 349-359
LegacyFragmentRecord(text, index) ==
  [NoRecordFields EXCEPT
     !.id = Num(index + 1), !.itemId = Num(index + 1), !.content = Str(text),
     !.type = Str("Text"), !.database = Str("text_content_db"),
     !.description = Str("Extracted from incomplete response"),
     !.imageProcessingResultId = Num(0), !.dataType = Str("string"),
     !.dbField = Str("content_field")]

\* Lines 307-323: the flat object literals that spell the keys content, type,
\* database and description, parsed, with all four values truthy.
IsCompleteObject(tok) ==
  /\ tok.k = "obj"
  /\ \A v \in {tok.obj.content, tok.obj.type, tok.obj.database, tok.obj.description} :
       Truthy(v)
LegacyCompleteObjects(content) == SelectSeq(content, IsCompleteObject)

\* Lines 341-347: the values of the "content": "..." fragments of the text.
HasContentFragment(tok) ==
  \/ tok = FRAGMENT
  \/ tok.k = "obj" /\ tok.obj.content.t = "string" /\ tok.obj.content.s # ""
FragmentText(tok) == IF tok = FRAGMENT THEN "Name" ELSE tok.obj.content.s
LegacyContentMatches(content) == SelectSeq(content, HasContentFragment)

\* Lines 341-366
LegacyFromFragments(fragments) ==
  IF fragments # <<>>
    THEN Returned([i \in 1..Len(fragments) |->
                     LegacyFragmentRecord(FragmentText(fragments[i]), i - 1)], 3)
    ELSE Thrown("ParseError", "Invalid response format from ChatGPT")
\* Lines 303-366
LegacyFromObjects(content, objects) ==
  IF objects # <<>>
    THEN Returned([i \in 1..Len(objects) |-> LegacyMapExtracted(objects[i].obj, i - 1)], 2)
    ELSE LegacyFromFragments(LegacyContentMatches(content))
\* Lines 284-366: parsedResults.map throws unless an array without null was parsed.
LegacyFromWhole(content, whole) ==
  IF /\ whole.ok /\ whole.val.k = "array"
     /\ \A i \in 1..Len(whole.val.items) : whole.val.items[i].k # "null"
    THEN Returned([i \in 1..Len(whole.val.items) |->
                     LegacyMapItem(MembersOf(whole.val.items[i]), i - 1)], 1)
    ELSE LegacyFromObjects(content, LegacyCompleteObjects(content))
\* Lines 283-367
LegacyNormalizeContent(content) == LegacyFromWhole(content, JSONparse(content))

(***************************************************************************)
(* The normalizer specification: one completion, handed to the parse and   *)
(* mapping code of each service.                                           *)
(***************************************************************************)
\* An object literal as the prompt asks for it.
SaveButton ==
  [NoMembers EXCEPT !.content = Str("Save"), !.type = Str("button"), !.required = Bool(TRUE)]

\* Values the members of a source object take.
IdValues == {Undef, Num(0), Num(1), Num(2), Num(-1), Str("7")}
RequiredValues == {Undef, Null, Bool(FALSE), Str("yes"), Num(1)}
IoValues == {Str("Input"), Str("aCtIoN"), Str(" input "), Str("sideways"), Str(""), Num(1)}
TextValues == {Null, Str(""), Str("db")}

SourceObjects ==
  {NoMembers}
  \cup {[SaveButton EXCEPT !.id = v] : v \in IdValues}
  \cup {[SaveButton EXCEPT !.order = v] : v \in IdValues \ {Undef}}
  \cup {[SaveButton EXCEPT !.required = v] : v \in RequiredValues}
  \cup {[SaveButton EXCEPT !.io = v] : v \in IoValues}
  \cup {[SaveButton EXCEPT !.inputOutput = v] : v \in {Str("output"), Str("ACTION")}}
  \cup {[SaveButton EXCEPT !.content = v] : v \in TextValues}
  \cup {[SaveButton EXCEPT !.database = v] : v \in TextValues}
  \cup {[SaveButton EXCEPT !.dataSource = Str("users"), !.database = v] : v \in {Undef, Str("db")}}
  \cup {[SaveButton EXCEPT !.dataType = v] : v \in {Str("email"), Str("weird"), Str("")}}
  \cup {[SaveButton EXCEPT !.description = Str("Saves the form"), !.dbField = Str("save_btn"),
                           !.type = v] : v \in {Str("botton"), Str("")}}

Elements == {O(m) : m \in SourceObjects} \cup {NUMBER}

RECURSIVE JoinElements(_, _)
\* e1 , e2 , ... from position i on
JoinElements(es, i) ==
  IF i > Len(es) THEN <<>>
  ELSE IF i = Len(es) THEN <<es[i]>>
  ELSE <<es[i], COMMA>> \o JoinElements(es, i + 1)
ArrayText(es) == <<LBRACK>> \o JoinElements(es, 1) \o <<RBRACK>>

\* The arrays of up to MaxElems elements, as the model is asked to answer.
PlainArrays == {ArrayText(es) : es \in UNION {[1..n -> Elements] : n \in 0..MaxElems}}

\* Other answers: an array with a trailing comma, a cut-off array, an object
\* around the array, an object around two arrays, a lone object, no JSON at all.
OtherBodies ==
  LET a == O(SaveButton)
      b == O([SaveButton EXCEPT !.id = Num(1)])
  IN { ArrayText(<<a>>), ArrayText(<<a, b>>), ArrayText(<<NULLTOK>>),
       <<LBRACK, a, COMMA, NL, RBRACK>>,
       <<LBRACK, a, COMMA>>,
       <<LBRACK, a, COMMA, LBRACE, FRAGMENT>>,
       <<LBRACE, KEY_ITEMS>> \o ArrayText(<<a>>) \o <<RBRACE>>,
       <<LBRACE, KEY_META>> \o ArrayText(<<a>>) \o <<RBRACE>>,
       <<LBRACE, KEY_ITEMS>> \o ArrayText(<<a>>) \o <<COMMA, KEY_META>>
         \o ArrayText(<<NUMBER>>) \o <<RBRACE>>,
       <<a>>, <<NUMBER>>, <<NULLTOK>>, <<PROSE>>, <<FRAGMENT>>, <<LBRACE, FRAGMENT>>, <<NL>> }

\* What the model may write before and after its answer.
Prefixes ==
  { <<>>, <<FENCE, JSONTAG, NL>>, <<FENCE, NL>>, <<PROSE, NL, FENCE, JSONTAG, NL>>,
    <<PROSE, FENCE, JSONTAG, NL>>, <<PROSE>>, <<PROSE, LBRACK, NUMBER, RBRACK, PROSE, NL>>,
    <<PROSE, LBRACK, NUMBER, RBRACK, NL, FENCE, JSONTAG, NL>> }
Suffixes ==
  { <<>>, <<NL, FENCE>>, <<NL, FENCE, NL, PROSE>>, <<FENCE, PROSE>>, <<NL, PROSE>>, <<NL>> }

Completions ==
  PlainArrays \cup {p \o b \o s : p \in Prefixes, b \in OtherBodies, s \in Suffixes}

\* Everything but the completion and what is made of it is at rest.
TableAtRest ==
  /\ host = "upload" /\ processedItems = <<>> /\ serverItems = <<>>
  /\ autoDataSourcePrediction = FALSE
  /\ isEditing = FALSE /\ editedItems = <<>> /\ isSaving = FALSE
  /\ pdIsSaving = FALSE /\ savePc = "idle" /\ savePayload = <<>>
  /\ lastOp = "init" /\ baseB = <<>> /\ extSince = FALSE /\ touched = FALSE
  /\ nEdits = 0 /\ nSaves = 0 /\ lastWrite = NoWrite
  /\ CsvIdle

TableClosed == TableAtRest /\ OtherIdle

AppIdle ==
  /\ results = <<>> /\ isProcessing = FALSE /\ errorMessage = "" /\ dbMessage = ""
  /\ saveMessage = "" /\ clearTimers = 0

InitNorm ==
  /\ TableClosed /\ AppIdle /\ AnalysisIdle
  /\ completion \in Completions
  /\ jsonContent = <<>>
  /\ normalized = NotRun /\ legacyNormalized = NotRun

\* callChatGPTAPI of the current service, lines 361-508.
CallChatGPTAPI_normalize ==
  /\ normalized = NotRun
  /\ jsonContent' = StripFences(completion)
  /\ normalized' = NormalizeContent(completion)
  /\ UNCHANGED <<host, otherVars, csvVars, tableVars, detailVars, appVars, uploadVars, histVars, analysisVars,
                 completion, legacyNormalized>>

\* callChatGPTAPI of the legacy service, lines 283-367.
Legacy_callChatGPTAPI_normalize ==
  /\ legacyNormalized = NotRun
  /\ legacyNormalized' = LegacyNormalizeContent(completion)
  /\ UNCHANGED <<host, otherVars, csvVars, tableVars, detailVars, appVars, uploadVars, histVars, analysisVars,
                 completion, jsonContent, normalized>>

NextNorm ==
  \/ CallChatGPTAPI_normalize
  \/ Legacy_callChatGPTAPI_normalize

SpecNorm == InitNorm /\ [][NextNorm]_vars

(***************************************************************************)
(* Analysis of an image: App.handleImageUpload, the upload screen that     *)
(* calls it, and processImage of the service.                              *)
(***************************************************************************)
Files == 1..MaxFiles

\* What the fetch of the completion endpoint comes back with.
NetworkDown == [kind |-> "network", content |-> <<>>]
HttpError == [kind |-> "http", content |-> <<PROSE>>]
NoContent == [kind |-> "empty", content |-> <<>>]
Completion(text) == [kind |-> "content", content |-> text]
Responses ==
  {NetworkDown, HttpError, NoContent}
  \cup {Completion(text) : text \in
          { ArrayText(<<O(SaveButton)>>),
            ArrayText(<<O(SaveButton), O([SaveButton EXCEPT !.id = Num(2), !.required = Null])>>),
            <<PROSE>>,
            <<O(SaveButton)>>,
            <<LBRACK, O(SaveButton), COMMA, LBRACE, FRAGMENT>> }}

\* callChatGPTAPI of the current service (lines 223-508) on a response.
CallChatGPTAPI(response) ==
  CASE response.kind = "network" ->
         Thrown("NetworkError", "Khong the ket noi den ChatGPT API")
    [] response.kind = "http" ->
         [Thrown("UpstreamError", "Loi tu ChatGPT API") EXCEPT !.rawResponse = response.content]
    [] response.kind = "empty" ->
         Thrown("EmptyContent", "ChatGPT khong tra ve noi dung")
    [] OTHER -> NormalizeContent(response.content)

\* callChatGPTAPI of the legacy service (lines 263-367) on a response.
LegacyCallChatGPTAPI(response) ==
  CASE response.kind = "network" -> Thrown("NetworkError", "Failed to fetch")
    [] response.kind = "http" -> Thrown("UpstreamError", "ChatGPT API error")
    [] response.kind = "empty" -> Thrown("EmptyContent", "No response content from ChatGPT")
    [] OTHER -> LegacyNormalizeContent(response.content)

\* mockProcessedData of the legacy service (lines 31-98; its first two records).
MockProcessedData ==
  << [NoRecordFields EXCEPT
        !.id = Num(1), !.itemId = Num(1), !.content = Str("1"), !.type = Str("Text"),
        !.database = Str("order_db"), !.description = Str("Order sequence number field"),
        !.imageProcessingResultId = Num(1), !.dataType = Str("number"),
        !.dbField = Str("order_number")],
     [NoRecordFields EXCEPT
        !.id = Num(2), !.itemId = Num(2), !.content = Str("View Details"),
        !.type = Str("Link"), !.database = Str("navigation_db"),
        !.description = Str("Clickable link to view order details"),
        !.imageProcessingResultId = Num(1), !.dataType = Str("url"),
        !.dbField = Str("details_link")] >>

\* What processImage hands to its caller once callChatGPTAPI has returned or
\* thrown: the current service rethrows, the legacy one catches every error
\* and returns the mock records (lines 133-140).
MockReturned == Returned(MockProcessedData, 0)
ProcessImageResult(svc, inner) == IF svc = "current" \/ inner.ok THEN inner ELSE MockReturned

\* App.handleImageUpload, lines 62-65: up to the call of processImage.
HandleImageUpload(file) ==
  /\ nCalls < MaxRequests
  /\ isProcessing' = TRUE
  /\ results' = <<>>
  /\ errorMessage' = ""
  /\ calls' = calls \cup {[n |-> nCalls + 1, file |-> file, stage |-> "processImage",
                            abandoned |-> FALSE]}
  /\ nCalls' = nCalls + 1
  /\ lastOp' = "analysisStarted"
  /\ resultsOrigin' = NoOrigin
  /\ UNCHANGED <<host, staleTimers, sideVars, viewVars, navVars, dbVars, csvVars, tableVars, detailVars, dbMessage, saveMessage, clearTimers, uploadVars,
                 baseB, extSince, touched, nEdits, nSaves, lastWrite, uploadUi, service, isValidApiKey,
                 selectedFile, targetChosen, isUploading, uploads, uploadedUrl, lastFailure,
                 normVars>>

\* App.handleImageUpload, lines 68-136: processImage has settled with outcome.
HandleImageUploadSettles(call, outcome, failure) ==
  /\ IF outcome.ok
       THEN results' = outcome.records /\ UNCHANGED errorMessage
       ELSE errorMessage' = outcome.message /\ UNCHANGED results
  /\ isProcessing' = FALSE
  /\ calls' = calls \ {call}
  /\ lastFailure' = failure
  /\ lastOp' = "analysisReturned"
  /\ resultsOrigin' = (IF outcome.ok THEN [file |-> call.file, abandoned |-> call.abandoned]
                        ELSE resultsOrigin)
  /\ UNCHANGED <<host, staleTimers, sideVars, viewVars, navVars, dbVars, csvVars, tableVars, detailVars, dbMessage, saveMessage, clearTimers, uploadVars,
                 baseB, extSince, touched, nEdits, nSaves, lastWrite, uploadUi, service, isValidApiKey,
                 nCalls, selectedFile, targetChosen, isUploading, uploads, uploadedUrl,
                 normVars>>

\* UploadScreen.handleFileChange / handleDrop -> processFile, up to the POST of uploadFile.
US_processFile ==
  /\ currentView = "upload" /\ uploadUi = "UploadScreen"
  /\ \E file \in Files \ uploads :
       /\ uploadedUrl' = 0
       /\ selectedFile' = file
       /\ isUploading' = TRUE
       /\ uploads' = uploads \cup {file}
  /\ UNCHANGED <<host, otherVars, csvVars, tableVars, detailVars, appVars, uploadVars, lastOp, baseB, extSince, touched,
                 nEdits, nSaves, lastWrite, uploadUi, service, isValidApiKey, calls, nCalls, targetChosen,
                 lastFailure, normVars>>

\* uploadFile after its fetch, and the rest of processFile (lines 180-222).
US_uploadResolves ==
  /\ \E file \in uploads, stored \in BOOLEAN :
       /\ uploads' = uploads \ {file}
       /\ uploadedUrl' = IF stored THEN file ELSE uploadedUrl
  /\ isUploading' = FALSE
  /\ UNCHANGED <<host, otherVars, csvVars, tableVars, detailVars, appVars, uploadVars, lastOp, baseB, extSince, touched,
                 nEdits, nSaves, lastWrite, uploadUi, service, isValidApiKey, calls, nCalls, selectedFile,
                 targetChosen, lastFailure, normVars>>

\* The project and the screen are picked from the two dropdowns.
US_selectProjectAndScreen ==
  /\ currentView = "upload" /\ uploadUi = "UploadScreen"
  /\ ~targetChosen
  /\ targetChosen' = TRUE
  /\ UNCHANGED <<host, otherVars, csvVars, tableVars, detailVars, appVars, uploadVars, lastOp, baseB, extSince, touched,
                 nEdits, nSaves, lastWrite, uploadUi, service, isValidApiKey, calls, nCalls, selectedFile,
                 isUploading, uploads, uploadedUrl, lastFailure, normVars>>

\* UploadScreen.handleClear (button disabled while processing) with App.handleClearMessages.
US_handleClear ==
  /\ currentView = "upload" /\ uploadUi = "UploadScreen"
  /\ ~isProcessing
  /\ selectedFile # 0 \/ targetChosen \/ results # <<>>
  /\ targetChosen' = FALSE
  /\ selectedFile' = 0
  /\ uploadedUrl' = 0
  /\ autoDataSourcePrediction' = FALSE
  /\ dbMessage' = ""
  /\ results' = <<>>
  /\ resultsOrigin' = NoOrigin
  /\ UNCHANGED <<host, staleTimers, sideVars, viewVars, navVars, dbVars, csvVars, tableVars, detailVars, isProcessing, errorMessage, saveMessage,
                 clearTimers, lastOp, baseB, extSince, touched, nEdits, nSaves, lastWrite, uploadUi, service,
                 isValidApiKey, calls, nCalls, isUploading, uploads, lastFailure, normVars>>

\* UploadScreen.handleReadFile behind the Read file button (lines 72-91, 440-446).
US_handleReadFile ==
  /\ currentView = "upload" /\ uploadUi = "UploadScreen"
  /\ selectedFile # 0 /\ targetChosen /\ ~isProcessing /\ ~isUploading
  /\ HandleImageUpload(selectedFile)

\* ImageUploader.handleDrop / handleFileInput -> handleFile (lines 25-49).
IU_handleFile ==
  /\ currentView = "upload" /\ uploadUi = "ImageUploader"
  /\ \E file \in Files : HandleImageUpload(file)

\* processImage up to its fetch: the key check (current lines 54-62, legacy 119-132).
Svc_processImage ==
  \E call \in calls :
    /\ call.stage = "processImage"
    /\ IF isValidApiKey
         THEN /\ calls' = (calls \ {call}) \cup {[call EXCEPT !.stage = "fetch"]}
              /\ lastOp' = "requestIssued"
              /\ UNCHANGED <<host, otherVars, csvVars, tableVars, detailVars, appVars, uploadVars, baseB, extSince,
                             touched, nEdits, nSaves, lastWrite, uploadUi, service, isValidApiKey, nCalls,
                             selectedFile, targetChosen, isUploading, uploads, uploadedUrl,
                             lastFailure, normVars>>
         ELSE HandleImageUploadSettles(call,
                ProcessImageResult(service, Thrown("CredentialError",
                                                   "OpenAI API key not configured")),
                "CredentialError")

\* processImage settles after callChatGPTAPI has returned or thrown inner.
ProcessImageSettles(call, inner) ==
  HandleImageUploadSettles(call, ProcessImageResult(service, inner), inner.name)

\* The fetch of the completion settles; callChatGPTAPI, processImage and
\* handleImageUpload run to their ends.
Svc_fetchResolves ==
  \E call \in calls, response \in Responses :
    /\ call.stage = "fetch"
    /\ ProcessImageSettles(call, IF service = "current" THEN CallChatGPTAPI(response)
                                  ELSE LegacyCallChatGPTAPI(response))

(***************************************************************************)
(* Saving the analysed rows to the database: TableView.handleSaveToDB, the *)
(* onSaveToDB of the upload screen, App.handleSaveToDB and saveToDatabase. *)
(***************************************************************************)
\* items.map(({ id, itemId, ...item }) => item)
ItemsWithoutId(items) ==
  [i \in 1..Len(items) |-> [f \in DOMAIN items[i] \ {"id", "itemId"} |-> items[i][f]]]

\* onSaveToDB of UploadScreen, lines 566-568
ItemsToSaveToDB(items, auto) ==
  IF auto THEN [i \in 1..Len(items) |-> [items[i] EXCEPT !.database = Null]] ELSE items

\* saveToDatabase, part_003 lines 530-540: formattedResults
FormatResult(item, index) ==
  [stt |-> Num(index + 1),
   content |-> item.content,
   type |-> item.type,
   database |-> item.database,
   description |-> item.description,
   dataType |-> JsOr(Member(item, "dataType"), Str("string")),
   dbField |-> JsOr(Member(item, "dbField"), Str("field_name")),
   io |-> JsOr(Member(item, "io"), Str("Output")),
   required |-> JsOr(Member(item, "required"), Bool(FALSE))]

\* JSON.stringify of an object: the members that are undefined are left out.
Stringified(item) == [f \in {g \in DOMAIN item : item[g] # Undef} |-> item[f]]

\* The request body of saveToDatabase: part_003 lines 543-551 with screenId and
\* imageUrl, services/chatgptService.ts lines 392-398 with the rows as they are
\* and neither of the two. With it, as history, the file the rows come from
\* and the rows App.results held when the request was made.
SaveToDatabaseBody(svc, items, screenId, imageUrl) ==
  IF svc = "current"
    THEN [sent |-> TRUE, screenId |-> screenId, imageUrl |-> imageUrl,
          results |-> [i \in 1..Len(items) |-> FormatResult(items[i], i - 1)],
          of |-> resultsOrigin.file, rows |-> results]
    ELSE [sent |-> TRUE, screenId |-> 0, imageUrl |-> 0,
          results |-> [i \in 1..Len(items) |-> Stringified(items[i])],
          of |-> resultsOrigin.file, rows |-> results]

\* Click on "Save to DB": TableView.handleSaveToDB up to its await, with the
\* onSaveToDB of the screen and App.handleSaveToDB up to the fetch of
\* saveToDatabase. The upload screen with the dropdowns refuses without a
\* screen or without the URL of the uploaded image and returns nothing to
\* await; the one built on ImageUploader passes App.handleSaveToDB as it is.
TV_handleSaveToDB ==
  /\ host = "upload" /\ TableMounted /\ ~isEditing /\ ~isSavingToDB
  /\ nSaves < MaxDbSaves
  /\ isSavingToDB' = TRUE
  /\ nSaves' = nSaves + 1
  /\ lastOp' = "saveToDB"
  /\ IF uploadUi = "UploadScreen" /\ (~targetChosen \/ uploadedUrl = 0)
       THEN UNCHANGED <<dbSaves, lastPost, dbMessage>>
       ELSE LET itemsToSave ==
                  IF uploadUi = "UploadScreen"
                    THEN ItemsToSaveToDB(ItemsWithoutId(Items), autoDataSourcePrediction)
                    ELSE ItemsWithoutId(Items)
                body == SaveToDatabaseBody(service, itemsToSave, IF uploadUi = "UploadScreen" THEN 1 ELSE 0,
                                           IF uploadUi = "UploadScreen" THEN uploadedUrl ELSE 0)
            IN /\ dbSaves' = dbSaves \cup {[n |-> nSaves + 1, body |-> body]}
               /\ lastPost' = body
               /\ dbMessage' = ""
  /\ UNCHANGED <<host, staleTimers, sideVars, viewVars, navVars, dbTimers, resultsOrigin, csvVars, tableVars, detailVars,
                 results, isProcessing, errorMessage, saveMessage, clearTimers, uploadVars,
                 baseB, extSince, touched, nEdits, lastWrite, analysisVars, normVars>>

\* TableView.handleSaveToDB after its await on the upload screen with the
\* dropdowns, whose onSaveToDB returns undefined: the finally block.
TV_handleSaveToDB_returns ==
  /\ isSavingToDB /\ uploadUi = "UploadScreen"
  /\ isSavingToDB' = FALSE
  /\ UNCHANGED <<host, staleTimers, sideVars, viewVars, navVars, dbSaves, dbTimers, lastPost, resultsOrigin, csvVars,
                 tableVars, detailVars, appVars, uploadVars, histVars, analysisVars, normVars>>

\* The POST of saveToDatabase settles (saveToDatabase turns every failure into
\* { success: false }); the rest of App.handleSaveToDB and, where it was
\* awaited, of TableView.handleSaveToDB.
App_saveToDBResolves ==
  /\ \E save \in dbSaves, success \in BOOLEAN :
       /\ dbSaves' = dbSaves \ {save}
       /\ IF success
            THEN /\ dbMessage' = "Successfully saved items to database"
                 /\ results' = <<>>
                 /\ resultsOrigin' = NoOrigin
                 /\ dbTimers' = dbTimers + 1
            ELSE /\ dbMessage' = "Error: Failed to save to database"
                 /\ UNCHANGED <<results, resultsOrigin, dbTimers>>
  /\ isSavingToDB' = (IF uploadUi = "ImageUploader" THEN FALSE ELSE isSavingToDB)
  /\ lastOp' = "saveToDBReturned"
  /\ UNCHANGED <<host, staleTimers, sideVars, viewVars, navVars, lastPost, csvVars, tableVars, detailVars,
                 isProcessing, errorMessage, saveMessage, clearTimers, uploadVars,
                 baseB, extSince, touched, nEdits, nSaves, lastWrite, analysisVars, normVars>>

\* setTimeout(() => setDbMessage(''), 5000) fires.
DbTimerFires ==
  /\ dbTimers > 0
  /\ dbTimers' = dbTimers - 1
  /\ dbMessage' = ""
  /\ UNCHANGED <<host, staleTimers, sideVars, viewVars, navVars, isSavingToDB, dbSaves, lastPost, resultsOrigin, csvVars,
                 tableVars, detailVars, results, isProcessing, errorMessage, saveMessage,
                 clearTimers, uploadVars, histVars, analysisVars, normVars>>

\* The button of the panel that shows dbMessage: App.handleClearMessages.
App_handleClearMessages ==
  /\ currentView = "upload" /\ ~isProcessing /\ dbMessage # ""
  /\ dbMessage' = ""
  /\ results' = <<>>
  /\ resultsOrigin' = NoOrigin
  /\ UNCHANGED <<host, staleTimers, sideVars, viewVars, navVars, dbVars, csvVars, tableVars, detailVars, isProcessing,
                 errorMessage, saveMessage, clearTimers, uploadVars, histVars, analysisVars,
                 normVars>>

(***************************************************************************)
(* Navigation: App.handleNavigate, called by the Sidebar and by the Back   *)
(* buttons of the project screens.                                         *)
(***************************************************************************)
Views == {"upload", "projects", "project-management"}

\* handleNavigate, lines 139-144. The screen that is left is unmounted and its
\* state and that of its table are gone: a screen shown again starts from its
\* initial state, and what a request of the old screen sets when it settles
\* is set on nothing. results, isProcessing and the messages are state of App.
App_handleNavigate ==
  /\ host = "upload"
  /\ \E view \in Views \ {currentView} : currentView' = view
  /\ IF currentView = "upload"
       THEN /\ selectedFile' = 0 /\ targetChosen' = FALSE /\ isUploading' = FALSE
            /\ uploads' = {} /\ uploadedUrl' = 0
            /\ autoDataSourcePrediction' = FALSE
            /\ isEditing' = FALSE /\ editedItems' = <<>> /\ isSaving' = FALSE
            /\ isSavingToDB' = FALSE
            /\ sortField' = "id" /\ sortDirection' = "asc" /\ searchTerm' = ""
            /\ calls' = {[call EXCEPT !.abandoned = (call.stage = "fetch")] : call \in calls}
       ELSE UNCHANGED <<selectedFile, targetChosen, isUploading, uploads, uploadedUrl,
                        autoDataSourcePrediction, isEditing, editedItems, isSaving,
                        isSavingToDB, sortField, sortDirection, searchTerm, calls>>
  /\ lastOp' = "navigate"
  /\ UNCHANGED <<host, staleTimers, sideVars, sortEngine, dbSaves, dbTimers, lastPost, resultsOrigin, csvVars,
                 detailVars, appVars, baseB, extSince, touched, nEdits, nSaves, lastWrite,
                 uploadUi, service, isValidApiKey, nCalls, lastFailure, normVars>>

\* Values of REACT_APP_OPENAI_API_KEY: what the text starts with and how long it is.
ApiKey(prefix, length) == [prefix |-> prefix, length |-> length]
ApiKeys ==
  {ApiKey("", 0), ApiKey("pk-", 51), ApiKey("sk-", 10), ApiKey("sk-", 20), ApiKey("sk-", 21),
   ApiKey("sk-", 51)}

\* The constructor: this.apiKey.startsWith('sk-') && this.apiKey.length > 20
KeyIsValid(apiKey) == apiKey.prefix = "sk-" /\ apiKey.length > 20

InitUpload ==
  /\ TableClosed /\ AppIdle /\ NormIdle
  /\ uploadUi \in {"UploadScreen", "ImageUploader"}
  /\ service \in {"current", "legacy"}
  /\ \E apiKey \in ApiKeys : isValidApiKey = KeyIsValid(apiKey)
  /\ calls = {} /\ nCalls = 0
  /\ selectedFile = 0 /\ targetChosen = FALSE /\ isUploading = FALSE /\ uploads = {}
  /\ uploadedUrl = 0 /\ lastFailure = ""

NextUpload ==
  \/ US_processFile
  \/ US_uploadResolves
  \/ US_selectProjectAndScreen
  \/ US_handleClear
  \/ US_handleReadFile
  \/ IU_handleFile
  \/ Svc_processImage
  \/ Svc_fetchResolves
  \/ TV_handleSaveToDB
  \/ TV_handleSaveToDB_returns
  \/ App_saveToDBResolves
  \/ DbTimerFires
  \/ App_handleClearMessages
  \/ App_handleNavigate

SpecUpload == InitUpload /\ [][NextUpload]_vars

(***************************************************************************)
(* Claims about the table.                                                 *)
(***************************************************************************)
\* C1: when a commit whose save collaborator fails completes while the table is
\* in edit mode with written fields, the table stays in edit mode and the
\* scratch buffer keeps its rows (the edits are not lost).
C1_FailedCommitKeepsEdits ==
  [][(isEditing /\ touched /\ savePc = "update" /\ savePc' = "idle")
       => (isEditing' /\ editedItems' = editedItems)]_vars

\* C2: field writes made in edit mode never change the baseline, and after
\* discard() the table is out of edit mode and shows the baseline B it showed
\* when edit mode was entered (as long as the host did not replace the baseline).
C2_DiscardRestoresBaseline ==
  /\ (isEditing /\ ~extSince) => Items = baseB
  /\ (lastOp = "discard" /\ ~extSince) => (~isEditing /\ CurrentItems = baseB)

\* A discard after two field writes, one of which changed a row.
C2_Witness ==
  /\ lastOp = "discard" /\ ~extSince /\ touched /\ nEdits >= 2
  /\ ~isEditing /\ savePc = "idle"

\* The rows `shown` are the committed rows `payload` (a row committed while it
\* displayed the placeholder "-" may carry any data source).
ShowsCommitted(shown, payload) ==
  /\ Len(shown) = Len(payload)
  /\ \A i \in 1..Len(shown) :
       /\ shown[i].id = payload[i].id
       /\ shown[i].content = payload[i].content
       /\ shown[i].required = payload[i].required
       /\ (shown[i].database = payload[i].database
             \/ (host = "upload" /\ payload[i].database = Str("-")))

\* C3: after a commit whose save collaborator succeeded, edit mode is exited,
\* the scratch buffer is dropped and the record set of the table is the
\* committed set (or the set the backend holds), never the pre-edit baseline.
C3_CommittedSetIsShown ==
  lastOp = "commitOk" =>
    /\ ~isEditing /\ editedItems = <<>>
    /\ IF host = "detail"
         THEN processedItems = serverItems \/ ShowsCommitted(processedItems, savePayload)
         ELSE ShowsCommitted(results, savePayload)

(***************************************************************************)
(* Claims about the analysis of an image.                                  *)
(***************************************************************************)
\* C4: at most one analysis is in flight at any time: no user action starts a
\* second call of handleImageUpload while an earlier one has not returned.
C4_OneAnalysisInFlight == Cardinality(calls) <= 1

\* C5: when an analysis has just returned and its service call failed (network
\* error, upstream error status, ParseError or ShapeError), an error message is
\* shown and the displayed record set is empty.
C5_FailedAnalysisShowsErrorOnly ==
  (/\ lastOp = "analysisReturned"
   /\ lastFailure \in {"NetworkError", "UpstreamError", "ParseError", "ShapeError"})
    => (errorMessage # "" /\ results = <<>>)

(***************************************************************************)
(* Claims about the normalizer.                                            *)
(***************************************************************************)
\* The text is a JSON array whose elements are all objects.
WellFormedArray(text) ==
  LET p == JSONparse(text)
  IN p.ok /\ p.val.k = "array" /\ \A i \in 1..Len(p.val.items) : p.val.items[i].k = "object"
SourceItems(text) == JSONparse(text).val.items
Populated(rec) ==
  \A v \in {rec.id, rec.order, rec.content, rec.type, rec.dataType, rec.io, rec.database,
            rec.required, rec.description, rec.dbField} : v # Undef
\* The record is the one made of this source object: what the object states is kept.
MadeOf(rec, src) ==
  /\ Truthy(src.id) => rec.id = src.id
  /\ Truthy(src.content) => rec.content = src.content
  /\ Truthy(src.type) => rec.type = src.type
  /\ Truthy(src.database) => rec.database = src.database

\* C6: a completion that is a valid JSON array of N objects is normalized to
\* exactly N records, the i-th record made of the i-th object, and no field of
\* the record model (id, order, content, type, dataType, io, database, required,
\* description, dbField) is undefined in any record.
C6_ArrayOfNYieldsNRecords ==
  (normalized # NotRun /\ WellFormedArray(completion)) =>
    /\ normalized.ok
    /\ Len(normalized.records) = Len(SourceItems(completion))
    /\ \A i \in 1..Len(normalized.records) :
         /\ Populated(normalized.records[i])
         /\ MadeOf(normalized.records[i], SourceItems(completion)[i].obj)

\* Two objects were normalized: an empty one, every field of which is defaulted,
\* and one that states its own id.
C6_Witness ==
  /\ normalized # NotRun /\ WellFormedArray(completion)
  /\ Len(SourceItems(completion)) = 2
  /\ SourceItems(completion)[1].obj = NoMembers
  /\ SourceItems(completion)[2].obj.id = Str("7")
  /\ Len(normalized.records) = 2

\* C7: a completion that none of the parse attempts can read and that holds no
\* "content": fragment raises ParseError, the error carries a non-empty preview
\* of the offending text, and no record is returned.
C7_ParseErrorCarriesPreview ==
  (/\ normalized # NotRun
   /\ ~ParseAttempts(StripFences(completion)).ok
   /\ LegacyContentMatches(completion) = <<>>)
    => /\ ~normalized.ok /\ normalized.name = "ParseError"
       /\ normalized.records = <<>>
       /\ normalized.rawResponse # <<>>

\* C8: the normalizer fails with ParseError only if all four parse attempts
\* fail on the text handed to them: the whole text, the [ ... ] substring, that
\* substring without trailing commas, and the first { ... } or [ ... ] substring.
C8_FailsOnlyIfAllAttemptsFail ==
  (normalized # NotRun /\ normalized.name = "ParseError") =>
    /\ ~JSONparse(jsonContent).ok
    /\ ~JSONparse(ArrayPatternMatch(jsonContent).group).ok
    /\ ~JSONparse(RemoveTrailingCommas(ArrayPatternMatch(jsonContent).group)).ok
    /\ ~JSONparse(AnyJsonPatternMatch(jsonContent).group).ok

FenceCount(text) == Cardinality(PositionsOf(text, FENCE))
\* The text between the opening fence (with its json tag) and the closing fence.
FencedContent(text) ==
  LET fences == PositionsOf(text, FENCE)
      a == MinOf(fences)
      b == MaxOf(fences)
      from == IF text[a + 1] = JSONTAG THEN a + 2 ELSE a + 1
  IN Trim(SubSeq(text, from, b - 1))

\* C9: of a completion with an opening and a closing fence only the text between
\* the fences is handed to the parse attempts; a completion without a fence is
\* handed over as it is (outer white space aside).
C9_OnlyFencedContentIsParsed ==
  normalized # NotRun =>
    /\ FenceCount(completion) = 2 => jsonContent = FencedContent(completion)
    /\ FenceCount(completion) = 0 => jsonContent = Trim(completion)

\* C10: the ids of the records of one normalized batch are pairwise distinct.
C10_IdsDistinctInBatch ==
  normalized.ok =>
    \A i, j \in 1..Len(normalized.records) :
      i # j => normalized.records[i].id # normalized.records[j].id

\* C11: a source object whose required member is true, false or null gets a
\* record with that same value; any other value of the member ("yes", 1) and
\* a missing member give false; required is undefined in no record.
C11_RequiredIsTriState ==
  (normalized # NotRun /\ WellFormedArray(completion)) =>
    /\ normalized.ok
    /\ \A i \in 1..Len(normalized.records) :
         LET given == SourceItems(completion)[i].obj.required
             kept == normalized.records[i].required
         IN /\ given \in {Bool(TRUE), Bool(FALSE), Null} => kept = given
            /\ given \notin {Bool(TRUE), Bool(FALSE), Null} => kept = Bool(FALSE)
            /\ kept # Undef

\* An array with required "yes" in its first object and null in its second
\* was normalized to false and null.
C11_Witness ==
  /\ normalized # NotRun /\ WellFormedArray(completion)
  /\ Len(SourceItems(completion)) = 2
  /\ SourceItems(completion)[1].obj.required = Str("yes")
  /\ SourceItems(completion)[2].obj.required = Null
  /\ normalized.ok
  /\ normalized.records[1].required = Bool(FALSE)
  /\ normalized.records[2].required = Null

\* The case variants of input, output and action among the strings of the model.
IsCaseVariant(x) == StrToLowerCase(x) \in {"input", "output", "action"}
Canonical(x) ==
  CASE StrToLowerCase(x) = "input" -> Str("Input")
    [] StrToLowerCase(x) = "action" -> Str("Action")
    [] OTHER -> Str("Output")

C13_IdAndOrderArePositiveIntegers ==
  (normalized # NotRun /\ WellFormedArray(completion)) =>
    \A i \in 1..Len(normalized.records) :
      LET src == SourceItems(completion)[i].obj
          rec == normalized.records[i]
      IN /\ rec.id = IF src.id.t = "number" /\ src.id.n > 0 THEN src.id ELSE Num(i)
         /\ rec.order = IF src.order.t = "number" /\ src.order.n > 0 THEN src.order ELSE Num(i)

\* C14: the dataType of every record is one of string, number, email, phone,
\* url, date, boolean, json; an absent or unrecognized source value becomes
\* "string", and the dataType is never the empty string.
C14_DataTypeIsOfTheEnum ==
  (normalized # NotRun /\ WellFormedArray(completion)) =>
    \A i \in 1..Len(normalized.records) :
      LET src == SourceItems(completion)[i].obj
          known == {Str(x) : x \in {"string", "number", "email", "phone", "url", "date",
                                    "boolean", "json"}}
          rec == normalized.records[i]
      IN /\ rec.dataType \in known
         /\ src.dataType \notin known => rec.dataType = Str("string")

(***************************************************************************)
(* The element type as the table shows it (TableView.tsx lines 134-145 and *)
(* 352-363).                                                               *)
(***************************************************************************)
\* The values of typeOptions; every label equals its value.
typeOptions ==
  <<"Label", "Textbox", "Number", "Dropdown", "Icon", "Button", "Image", "Toggle",
    "Radio button", "Hyperlink">>

\* type.toLowerCase().replace('botton', 'button') on the type strings of the model.
FixTypo(x) == IF StrToLowerCase(x) = "botton" THEN "button" ELSE StrToLowerCase(x)

\* fixedType.charAt(0).toUpperCase() + fixedType.slice(1)
CapitalizeFirst(x) ==
  CASE x = "button" -> "Button"
    [] x = "text" -> "Text"
    [] x = "weird" -> "Weird"
    [] OTHER -> x

\* A display of the type exactly as the record stores it.
formatTypeAsStored(type) == type.s

\* formatType, lines 352-363: the label of the option whose value matches the
\* lower-cased, typo-fixed type; without a match the type with a capital first
\* letter; the empty string for a falsy type.
formatType(type) ==
  LET fixedType == FixTypo(type.s)
      matching == {i \in 1..Len(typeOptions) : StrToLowerCase(typeOptions[i]) = fixedType}
  IN IF ~Truthy(type) THEN ""
     ELSE IF matching # {} THEN typeOptions[MinOf(matching)]
     ELSE CapitalizeFirst(fixedType)

\* The completion of the scenario: a fence annotated json around an array of
\* one object with content "Save", type "button", required true.
FencedSaveButton ==
  <<FENCE, JSONTAG, NL>> \o ArrayText(<<O(SaveButton)>>) \o <<NL, FENCE>>

AsSourceObject(rec) ==
  JObject([NoMembers EXCEPT !.id = rec.id, !.itemId = rec.itemId, !.order = rec.order,
             !.content = rec.content, !.type = rec.type, !.database = rec.database,
             !.description = rec.description,
             !.imageProcessingResultId = rec.imageProcessingResultId,
             !.dataType = rec.dataType, !.dbField = rec.dbField, !.io = rec.io,
             !.required = rec.required])
Renormalized(records) ==
  MapResults([i \in 1..Len(records) |-> AsSourceObject(records[i])])

\* C16: the record mapping applied to the records it returned gives the same
\* records again: same length, same order, every field equal.
C16_MappingIsIdempotent ==
  (normalized # NotRun /\ normalized.ok) =>
    Renormalized(normalized.records) = normalized.records

\* Two records were returned, the first with every field defaulted, the
\* second with its database taken from the member dataSource.
C16_Witness ==
  /\ normalized # NotRun /\ normalized.ok /\ WellFormedArray(completion)
  /\ Len(normalized.records) = 2
  /\ SourceItems(completion)[1].obj = NoMembers
  /\ normalized.records[1].content = Str("Unknown")
  /\ SourceItems(completion)[2].obj.database = Undef
  /\ normalized.records[2].database = Str("users")

(***************************************************************************)
(* Claims about the writes of the editors.                                 *)
(***************************************************************************)
\* The rows of the scratch buffer that carry the id of the last write.
WrittenRows == {i \in 1..Len(editedItems) : editedItems[i].id = lastWrite.id}

\* C17: right after a field write, the written row holds the coerced value:
\* for required exactly true, false or null for the dropdown strings "true",
\* "false", "null"; for the data source null when the sentinel "-" was entered
\* and the entered text otherwise. Converting the required value of a row to
\* its dropdown string and back gives the same value.
C17_SetFieldCoerces ==
  /\ (lastOp = "setField" /\ isEditing) =>
       \A i \in WrittenRows :
         /\ (lastWrite.field = "required" /\ lastWrite.raw = "true")
              => editedItems[i].required = Bool(TRUE)
         /\ (lastWrite.field = "required" /\ lastWrite.raw = "false")
              => editedItems[i].required = Bool(FALSE)
         /\ (lastWrite.field = "required" /\ lastWrite.raw = "null")
              => editedItems[i].required = Null
         /\ (lastWrite.field = "database" /\ lastWrite.raw = "-")
              => editedItems[i].database = Null
         /\ (lastWrite.field = "database" /\ lastWrite.raw # "-")
              => editedItems[i].database = Str(lastWrite.raw)
  /\ \A i \in 1..Len(CurrentItems) :
       CurrentItems[i].required \in {Bool(TRUE), Bool(FALSE), Null}
         => stringToRequired(requiredToString(CurrentItems[i].required))
              = CurrentItems[i].required

\* The option "null" of the required dropdown was just written to a row.
C17_Witness ==
  /\ lastOp = "setField" /\ isEditing
  /\ lastWrite.field = "required" /\ lastWrite.raw = "null"
  /\ \E i \in WrittenRows : editedItems[i].required = Null /\ baseB[i].required = Bool(TRUE)

\* C18: a field write with an id that no row of the scratch buffer carries
\* changes nothing: the rows of the scratch buffer and their order, the
\* baseline and the edit-mode flag are as before.
C18_UnknownIdIsNoOp ==
  [][(/\ lastOp' = "setField" /\ nEdits' = nEdits + 1
      /\ \A i \in 1..Len(editedItems) : editedItems[i].id # lastWrite'.id)
       => (/\ editedItems' = editedItems
           /\ processedItems' = processedItems /\ results' = results
           /\ isEditing' = isEditing)]_vars

\* A write with an unknown id was just made on a scratch buffer of two rows.
C18_Witness ==
  /\ lastOp = "setField" /\ isEditing
  /\ lastWrite.id = UnknownId /\ lastWrite.field = "content"
  /\ Len(editedItems) = 2

(***************************************************************************)
(* CSV export: ProjectDetailScreen.exportToCSV (lines 272-324) and         *)
(* ResultDisplay.handleExportCSV (lines 114-137). A text is a sequence of  *)
(* pieces: the double quote, the comma and the line break on their own,    *)
(* every run of other characters as one piece.                             *)
(***************************************************************************)
DQUOTE == "\""
\* The pieces of the strings the rows of the model hold.
Chars(x) ==
  CASE x = "" -> <<>>
    [] x = "a\"b" -> <<"a", DQUOTE, "b">>
    [] x = "a,b" -> <<"a", ",", "b">>
    [] x = "a\nb" -> <<"a", "\n", "b">>
    [] OTHER -> <<x>>

\* `${value}` of a template literal
TemplateText(v) ==
  CASE v.t = "string" -> Chars(v.s)
    [] v.t = "number" -> <<ToString(v.n)>>
    [] v.t = "boolean" -> <<IF v.n = 1 THEN "true" ELSE "false">>
    [] OTHER -> <<v.t>>

RECURSIVE EscapeQuotes(_)
\* text.replace(/"/g, '""')
EscapeQuotes(cs) ==
  IF cs = <<>> THEN <<>>
  ELSE (IF Head(cs) = DQUOTE THEN <<DQUOTE, DQUOTE>> ELSE <<Head(cs)>>) \o EscapeQuotes(Tail(cs))

\* `"${text}"`
Quoted(cs) == <<DQUOTE>> \o cs \o <<DQUOTE>>

RECURSIVE JoinWith(_, _)
\* parts.join(sep)
JoinWith(parts, sep) ==
  IF parts = <<>> THEN <<>>
  ELSE IF Len(parts) = 1 THEN parts[1]
  ELSE parts[1] \o <<sep>> \o JoinWith(Tail(parts), sep)

\* formatRequired, lines 280-285 (the words without their diacritics)
formatRequired(required) ==
  IF required = Bool(TRUE) THEN <<"Co">>
  ELSE IF required = Bool(FALSE) THEN <<"Khong">>
  ELSE IF required = Null THEN <<"Khong xac dinh">>
  ELSE <<>>

\* exportToCSV, lines 288-297
DetailHeaders ==
  <<<<"STT">>, <<"Ten item">>, <<"Type">>, <<"Data Type">>, <<"Input/Output">>,
    <<"Data Source">>, <<"Required">>, <<"Mo ta">>>>

\* exportToCSV, lines 302-311: one line of the file; type, data type, io and
\* data source are put between quotes as they are.
DetailLine(item, index) ==
  JoinWith(<<<<ToString(index + 1)>>,
             Quoted(EscapeQuotes(Chars(item.content.s))),
             Quoted(TemplateText(item.type)),
             Quoted(TemplateText(JsOr(Member(item, "dataType"), Str("")))),
             Quoted(TemplateText(JsOr(Member(item, "io"), Str("Output")))),
             Quoted(TemplateText(JsOr(item.database, Str("-")))),
             Quoted(formatRequired(Member(item, "required"))),
             Quoted(EscapeQuotes(Chars(item.description.s)))>>, ",")

\* exportToCSV, lines 300-312
ExportToCSV(items) ==
  JoinWith(<<JoinWith(DetailHeaders, ",")>>
             \o [i \in 1..Len(items) |-> DetailLine(items[i], i - 1)], "\n")

\* item.content.replace / item.description.replace on a value without replace
ExportToCSVThrows(items) ==
  \E i \in 1..Len(items) : items[i].content.t # "string" \/ items[i].description.t # "string"

\* handleExportCSV, line 116
ResultHeaders == <<<<"STT">>, <<"Content">>, <<"Type">>, <<"Database">>, <<"Description">>>>

\* handleExportCSV, lines 119-125: every text field has its quotes doubled.
ResultLine(item, index) ==
  JoinWith(<<<<ToString(index + 1)>>,
             Quoted(EscapeQuotes(Chars(item.content.s))),
             Quoted(EscapeQuotes(Chars(item.type.s))),
             Quoted(EscapeQuotes(Chars(item.database.s))),
             Quoted(EscapeQuotes(Chars(item.description.s)))>>, ",")

\* handleExportCSV, lines 117-126
HandleExportCSV(dataToExport) ==
  JoinWith(<<JoinWith(ResultHeaders, ",")>>
             \o [i \in 1..Len(dataToExport) |-> ResultLine(dataToExport[i], i - 1)], "\n")

HandleExportCSVThrows(dataToExport) ==
  \E i \in 1..Len(dataToExport) :
    \E name \in {"content", "type", "database", "description"} :
      dataToExport[i][name].t # "string"

\* Click on "CSV export" of the project detail screen (the button is disabled
\* for a project without rows). The screen reads selectedProject.processedItems;
\* the rows being edited are state of TableView and out of its reach.
PD_exportToCSV ==
  /\ host = "detail" /\ Len(processedItems) > 0
  /\ csvContent' = IF ExportToCSVThrows(processedItems) THEN csvContent
                   ELSE ExportToCSV(processedItems)
  /\ exportedAt' = [by |-> "exportToCSV", editing |-> isEditing, baseline |-> processedItems,
                    scratch |-> editedItems, threw |-> ExportToCSVThrows(processedItems)]
  /\ UNCHANGED <<host, otherVars, tableVars, detailVars, appVars, uploadVars, histVars,
                 analysisVars, normVars>>

\* ResultDisplay.handleEdit, lines 46-49
RD_handleEdit ==
  /\ host = "resultDisplay" /\ ~isEditing
  /\ editedItems' = results
  /\ isEditing' = TRUE
  /\ lastOp' = "edit" /\ baseB' = results /\ extSince' = FALSE /\ touched' = FALSE
  /\ lastWrite' = NoWrite
  /\ UNCHANGED <<host, otherVars, csvVars, analysisVars, normVars, isSaving, detailVars, appVars, uploadVars,
                 nEdits, nSaves>>

\* ResultDisplay.handleFieldChange, lines 56-62, called by the text editors of a row.
RD_handleFieldChange ==
  /\ host = "resultDisplay" /\ isEditing
  /\ nEdits < MaxEdits
  /\ \E i \in 1..Len(editedItems), field \in {"content", "database"} :
       \E raw \in {"b", "a\"b"} :
         /\ editedItems' = HandleFieldChange(editedItems, editedItems[i].id, field, Str(raw))
         /\ lastWrite' = [id |-> editedItems[i].id, field |-> field, raw |-> raw]
  /\ lastOp' = "setField" /\ touched' = TRUE /\ nEdits' = nEdits + 1
  /\ UNCHANGED <<host, otherVars, csvVars, analysisVars, normVars, isEditing, isSaving, detailVars, appVars,
                 uploadVars, baseB, extSince, nSaves>>

\* Click on "CSV export" of ResultDisplay, lines 114-137.
RD_handleExportCSV ==
  /\ host = "resultDisplay"
  /\ LET dataToExport == IF isEditing THEN editedItems ELSE results
     IN /\ csvContent' = IF HandleExportCSVThrows(dataToExport) THEN csvContent
                         ELSE HandleExportCSV(dataToExport)
        /\ exportedAt' = [by |-> "handleExportCSV", editing |-> isEditing, baseline |-> results,
                          scratch |-> editedItems,
                          threw |-> HandleExportCSVThrows(dataToExport)]
  /\ UNCHANGED <<host, otherVars, tableVars, detailVars, appVars, uploadVars, histVars,
                 analysisVars, normVars>>

\* A row with the texts of its four free-text fields.
CsvItem(id, content, type, database, description) ==
  [Item(id, content, database, Bool(TRUE)) EXCEPT !.type = Str(type),
                                                 !.description = Str(description)]

\* Record sets with quotes, commas and line breaks in their texts.
CsvBaselines ==
  { <<CsvItem(1, c, t, db, d)>> :
      c \in {"a", "a\"b", "a,b", "a\nb"}, t \in {"Button", "a\"b"},
      db \in {Null, Str("db"), Str("a\"b"), Str("a,b")}, d \in {"d", "a\"b", "a\nb"} }
  \cup { <<CsvItem(1, "a,b", "Button", Str("db"), "a\"b"),
           CsvItem(2, "a\"b", "Label", Null, "a\nb")>> }

InitCsv ==
  /\ host \in {"detail", "resultDisplay"}
  /\ \E b \in CsvBaselines :
       /\ processedItems = (IF host = "detail" THEN b ELSE <<>>)
       /\ serverItems = (IF host = "detail" THEN b ELSE <<>>)
       /\ results = (IF host = "resultDisplay" THEN b ELSE <<>>)
       /\ baseB = b
  /\ isProcessing = FALSE /\ errorMessage = "" /\ dbMessage = "" /\ saveMessage = ""
  /\ clearTimers = 0
  /\ autoDataSourcePrediction = FALSE
  /\ isEditing = FALSE /\ editedItems = <<>> /\ isSaving = FALSE
  /\ pdIsSaving = FALSE /\ savePc = "idle" /\ savePayload = <<>>
  /\ lastOp = "init" /\ extSince = FALSE /\ touched = FALSE
  /\ nEdits = 0 /\ nSaves = 0 /\ lastWrite = NoWrite
  /\ CsvIdle /\ OtherIdle /\ AnalysisIdle /\ NormIdle

NextCsv ==
  \/ TV_handleEdit
  \/ TV_handleFieldChange
  \/ PD_exportToCSV
  \/ RD_handleEdit
  \/ RD_handleFieldChange
  \/ RD_handleExportCSV

SpecCsv == InitCsv /\ [][NextCsv]_vars

(***************************************************************************)
(* Claims about the CSV export.                                            *)
(***************************************************************************)
\* The record set a file made by this handler in this situation has to hold
\* according to the export's contract, and the text each handler makes of it.
SerializedBy(by, items) ==
  IF by = "exportToCSV" THEN ExportToCSV(items) ELSE HandleExportCSV(items)

\* C19: a downloaded file is the serialization of the baseline when the table
\* was not being edited at the time of the export, and of the scratch buffer
\* when it was: the edits of the running edit session are in the file.
C19_ExportHoldsScratchMidEdit ==
  (exportedAt.by # "" /\ ~exportedAt.threw) =>
    csvContent = SerializedBy(exportedAt.by,
                              IF exportedAt.editing THEN exportedAt.scratch
                              ELSE exportedAt.baseline)

\* Reading a CSV text: a quote outside quotes opens a quoted run, inside quotes
\* two quotes stand for one and a single quote ends the run; a comma outside
\* quotes ends the field and a line break outside quotes ends the line.
OutsideQuotes(text, i) == Cardinality({j \in 1..(i - 1) : text[j] = DQUOTE}) % 2 = 0
SeparatorsOf(text, sep) == {i \in 1..Len(text) : text[i] = sep /\ OutsideQuotes(text, i)}
NthOf(S, k) == CHOOSE x \in S : Cardinality({y \in S : y < x}) = k - 1
\* The pieces of the text between the positions S.
SplitAt(text, S) ==
  [k \in 1..(Cardinality(S) + 1) |->
     SubSeq(text, IF k = 1 THEN 1 ELSE NthOf(S, k - 1) + 1,
                  IF k = Cardinality(S) + 1 THEN Len(text) ELSE NthOf(S, k) - 1)]
RECURSIVE Unquote(_, _)
Unquote(cs, inq) ==
  IF cs = <<>> THEN <<>>
  ELSE IF Head(cs) # DQUOTE THEN <<Head(cs)>> \o Unquote(Tail(cs), inq)
  ELSE IF inq /\ Len(cs) >= 2 /\ cs[2] = DQUOTE
    THEN <<DQUOTE>> \o Unquote(Tail(Tail(cs)), TRUE)
  ELSE Unquote(Tail(cs), ~inq)
FieldsOf(line) ==
  [k \in 1..(Cardinality(SeparatorsOf(line, ",")) + 1) |->
     Unquote(SplitAt(line, SeparatorsOf(line, ","))[k], FALSE)]
ParseCsv(text) ==
  [k \in 1..(Cardinality(SeparatorsOf(text, "\n")) + 1) |->
     FieldsOf(SplitAt(text, SeparatorsOf(text, "\n"))[k])]

\* The line of the parsed file has the columns of the header and holds the
\* content of the row in its second and the description in its last column.
LineHolds(line, header, item) ==
  /\ Len(line) = Len(header)
  /\ line[2] = Chars(item.content.s)
  /\ line[Len(line)] = Chars(item.description.s)

\* C20: the file made of a record set, read again (split at the commas and
\* line breaks outside quotes, doubled quotes undone), has one line per record
\* after the header, and the line of each record gives back the record's
\* content and description exactly, whatever characters the fields hold.
C20_CsvRoundTrip ==
  (exportedAt.by # "" /\ ~exportedAt.threw) =>
    LET lines == ParseCsv(csvContent)
        items == IF exportedAt.by = "exportToCSV" \/ ~exportedAt.editing
                   THEN exportedAt.baseline ELSE exportedAt.scratch
    IN /\ Len(lines) = Len(items) + 1
       /\ \A i \in 1..Len(items) : LineHolds(lines[i + 1], lines[1], items[i])

(***************************************************************************)
(* The view of the table: filteredAndSortedItems (TableView.tsx lines      *)
(* 247-271) and handleSort (lines 273-280).                                *)
(***************************************************************************)
\* Rows of the tables whose view is examined.
MaxRows == 3

\* The texts of the rows in the order of String.prototype.localeCompare.
Collation == <<"", "-", "a", "ab", "b", "d", "db", "e">>
RankOf(x) == CHOOSE k \in 1..Len(Collation) : Collation[k] = x
Sign(k) == IF k < 0 THEN -1 ELSE IF k > 0 THEN 1 ELSE 0

\* a.localeCompare(b)
localeCompare(a, b) == Sign(RankOf(a) - RankOf(b))

\* text.includes(term) for the texts and the search terms of the model
Substrings(x) ==
  CASE x = "ab" -> {"", "a", "b", "ab"}
    [] x = "db" -> {"", "d", "b", "db"}
    [] OTHER -> {"", x}
Includes(x, term) == term \in Substrings(x)

\* The filter callback, lines 250-254.
MatchesSearch(item) ==
  \/ searchTerm = ""
  \/ Includes(StrToLowerCase(item.content.s), StrToLowerCase(searchTerm))
  \/ Includes(StrToLowerCase(item.description.s), StrToLowerCase(searchTerm))

\* Array.prototype.filter: the elements that pass, in their order.
Filter(s) ==
  LET kept == {i \in 1..Len(s) : MatchesSearch(s[i])}
  IN [k \in 1..Cardinality(kept) |-> s[NthOf(kept, k)]]

\* The comparator, lines 256-271.
Compare(a, b, field, direction) ==
  LET aValue == a[field]
      bValue == b[field]
  IN IF aValue.t = "string" /\ bValue.t = "string"
       THEN (IF direction = "asc" THEN localeCompare(aValue.s, bValue.s)
             ELSE localeCompare(bValue.s, aValue.s))
     ELSE IF aValue.t = "number" /\ bValue.t = "number"
       THEN (IF direction = "asc" THEN aValue.n - bValue.n ELSE bValue.n - aValue.n)
     ELSE 0

\* s with the element at position k moved to position p <= k.
MoveTo(s, k, p) ==
  [i \in 1..Len(s) |-> IF i < p \/ i > k THEN s[i] ELSE IF i = p THEN s[k] ELSE s[i - 1]]

\* Insertion from the right: the element moves left past every element that
\* compares greater, and stops at the first that does not.
LinearPosition(s, k, field, direction) ==
  LET stops == {j \in 1..(k - 1) : Compare(s[j], s[k], field, direction) <= 0}
  IN IF stops = {} THEN 1 ELSE MaxOf(stops) + 1

RECURSIVE InsertionSort(_, _, _, _)
InsertionSort(s, k, field, direction) ==
  IF k > Len(s) THEN s
  ELSE InsertionSort(MoveTo(s, k, LinearPosition(s, k, field, direction)), k + 1,
                     field, direction)

\* TimSort on an array shorter than its minimal run: the run at the start is
\* found (a strictly descending one is reversed), the rest is inserted by
\* binary search.
RunIsDescending(s, field, direction) == Compare(s[2], s[1], field, direction) < 0
RunLength(s, field, direction) ==
  IF Len(s) < 2 THEN Len(s)
  ELSE MaxOf({r \in 2..Len(s) :
                \A i \in 3..r :
                  IF RunIsDescending(s, field, direction)
                    THEN Compare(s[i], s[i - 1], field, direction) < 0
                    ELSE Compare(s[i], s[i - 1], field, direction) >= 0})
ReverseRange(s, r) == [i \in 1..Len(s) |-> IF i <= r THEN s[r + 1 - i] ELSE s[i]]
MakeRun(s, field, direction) ==
  IF Len(s) >= 2 /\ RunIsDescending(s, field, direction)
    THEN ReverseRange(s, RunLength(s, field, direction))
    ELSE s

RECURSIVE BinaryPosition(_, _, _, _, _, _)
BinaryPosition(s, k, left, right, field, direction) ==
  IF left >= right THEN left
  ELSE IF Compare(s[k], s[left + ((right - left) \div 2)], field, direction) < 0
    THEN BinaryPosition(s, k, left, left + ((right - left) \div 2), field, direction)
    ELSE BinaryPosition(s, k, left + ((right - left) \div 2) + 1, right, field, direction)

RECURSIVE BinaryInsertionSort(_, _, _, _)
BinaryInsertionSort(s, k, field, direction) ==
  IF k > Len(s) THEN s
  ELSE BinaryInsertionSort(MoveTo(s, k, BinaryPosition(s, k, 1, k, field, direction)), k + 1,
                           field, direction)

TimSort(s, field, direction) ==
  BinaryInsertionSort(MakeRun(s, field, direction), RunLength(s, field, direction) + 1,
                      field, direction)

\* Array.prototype.sort with the comparator of the table. Where the comparator
\* is a consistent order every engine gives the one stable result; where it is
\* not, the order is the engine's.
ArraySort(s, field, direction) ==
  IF sortEngine = "TimSort" THEN TimSort(s, field, direction)
  ELSE InsertionSort(s, 2, field, direction)

\* filteredAndSortedItems, lines 249-271
filteredAndSortedItems == ArraySort(Filter(CurrentItems), sortField, sortDirection)

\* The columns whose header calls handleSort (lines 445-475).
SortableFields == {"id", "content", "database", "description"}

\* handleSort, lines 273-280
TV_handleSort ==
  /\ TableMounted
  /\ \E field \in SortableFields :
       IF sortField = field
         THEN /\ sortDirection' = (IF sortDirection = "asc" THEN "desc" ELSE "asc")
              /\ UNCHANGED sortField
         ELSE /\ sortField' = field
              /\ sortDirection' = "asc"
  /\ UNCHANGED <<host, staleTimers, sideVars, searchTerm, sortEngine, navVars, dbVars, resultsOrigin, csvVars, tableVars,
                 detailVars, appVars, uploadVars, histVars, analysisVars, normVars>>

\* The search box, lines 382-386: onChange sets searchTerm.
TV_setSearchTerm ==
  /\ TableMounted
  /\ \E term \in {"", "a", "B"} :
       /\ term # searchTerm
       /\ searchTerm' = term
  /\ UNCHANGED <<host, staleTimers, sideVars, sortField, sortDirection, sortEngine, navVars, dbVars, resultsOrigin,
                 csvVars, tableVars, detailVars, appVars, uploadVars, histVars, analysisVars,
                 normVars>>

\* A row of a table that is sorted.
ViewItem(id, content, database, description) ==
  [Item(id, content, database, Null) EXCEPT !.description = Str(description)]

\* Record sets of MaxRows rows with equal and different keys, with and
\* without a row that has no data source.
ViewBaselines ==
  { [i \in 1..MaxRows |->
       ViewItem(i, IF i = 2 THEN "a" ELSE "b", IF i = k THEN Null ELSE IF i = 1 THEN Str("db") ELSE Str("ab"),
                IF i = 1 THEN "e" ELSE "d")] : k \in {0, 2} }

InitView ==
  /\ host = "detail"
  /\ \E b \in ViewBaselines :
       /\ processedItems = b /\ serverItems = b /\ baseB = b
  /\ results = <<>>
  /\ isProcessing = FALSE /\ errorMessage = "" /\ dbMessage = "" /\ saveMessage = ""
  /\ clearTimers = 0
  /\ autoDataSourcePrediction = FALSE
  /\ isEditing = FALSE /\ editedItems = <<>> /\ isSaving = FALSE
  /\ pdIsSaving = FALSE /\ savePc = "idle" /\ savePayload = <<>>
  /\ lastOp = "init" /\ extSince = FALSE /\ touched = FALSE
  /\ nEdits = 0 /\ nSaves = 0 /\ lastWrite = NoWrite
  /\ sortField = "id" /\ sortDirection = "asc" /\ searchTerm = ""
  /\ sortEngine \in {"TimSort", "InsertionSort"}
  /\ NavIdle /\ DbIdle /\ resultsOrigin = NoOrigin /\ staleTimers = 0
  /\ PageIdle /\ LoginIdle
  /\ CsvIdle /\ AnalysisIdle /\ NormIdle

NextView ==
  \/ TV_handleEdit
  \/ TV_handleCancel
  \/ TV_handleFieldChange
  \/ TV_handleSort
  \/ TV_setSearchTerm

SpecView == InitView /\ [][NextView]_vars

(***************************************************************************)
(* Claims about the view.                                                  *)
(***************************************************************************)
\* The place of a shown row in the array the view is made of.
PlaceOf(item) == CHOOSE i \in 1..Len(CurrentItems) : CurrentItems[i] = item
SameKind(a, b) == a.t = b.t /\ a.t \in {"string", "number"}
\* The key a comes before the key b in the direction, or equals it.
InOrder(a, b, direction) ==
  LET c == IF a.t = "string" THEN localeCompare(a.s, b.s) ELSE Sign(a.n - b.n)
  IN IF direction = "asc" THEN c <= 0 ELSE c >= 0

\* C21: in the view sorted by a field, two shown rows that both hold a text
\* (or both a number) in that field stand in the order of the comparison, and
\* rows with equal keys stand in the order of the array the view is made of.
C21_SortedViewIsOrdered ==
  \A i, j \in 1..Len(filteredAndSortedItems) :
    (i < j /\ SameKind(filteredAndSortedItems[i][sortField],
                       filteredAndSortedItems[j][sortField]))
      => /\ InOrder(filteredAndSortedItems[i][sortField],
                    filteredAndSortedItems[j][sortField], sortDirection)
         /\ filteredAndSortedItems[i][sortField] = filteredAndSortedItems[j][sortField]
              => PlaceOf(filteredAndSortedItems[i]) < PlaceOf(filteredAndSortedItems[j])

(***************************************************************************)
(* More claims about the analysis of an image.                             *)
(***************************************************************************)
\* C22: with a missing or malformed API key no call of the analysis reaches
\* the fetch of the completion, and an analysis that has just returned has
\* failed with the credential error: a message is shown and there are no records.
C22_BadKeyFailsBeforeRequest ==
  ~isValidApiKey =>
    /\ \A call \in calls : call.stage # "fetch"
    /\ lastOp = "analysisReturned" =>
         (lastFailure = "CredentialError" /\ errorMessage # "" /\ results = <<>>)

(***************************************************************************)
(* The application with its requests settling: the upload screen, the      *)
(* analysis, the save to the database and the commit of the edited rows,   *)
(* under the assumption that every request that was issued settles and     *)
(* every continuation that was scheduled runs.                             *)
(***************************************************************************)
\* Either the upload screen, where on the screen with the dropdowns a project
\* and a screen are chosen and an image is selected whose upload has ended
\* (stored or not), or the detail screen of a project.
InitLive ==
  \/ /\ TableClosed /\ AppIdle /\ NormIdle
     /\ uploadUi \in {"UploadScreen", "ImageUploader"}
     /\ service \in {"current", "legacy"}
     /\ \E apiKey \in ApiKeys : isValidApiKey = KeyIsValid(apiKey)
     /\ calls = {} /\ nCalls = 0
     /\ selectedFile = (IF uploadUi = "UploadScreen" THEN 1 ELSE 0)
     /\ targetChosen = (uploadUi = "UploadScreen")
     /\ isUploading = FALSE /\ uploads = {}
     /\ uploadedUrl \in (IF uploadUi = "UploadScreen" THEN {0, 1} ELSE {0})
     /\ lastFailure = ""
  \/ InitTable /\ host = "detail"

NextLive ==
  \/ US_handleReadFile
  \/ IU_handleFile
  \/ Svc_processImage
  \/ Svc_fetchResolves
  \/ TV_handleSaveToDB
  \/ TV_handleSaveToDB_returns
  \/ App_saveToDBResolves
  \/ App_handleNavigate
  \/ TV_handleEdit
  \/ TV_handleCancel
  \/ TV_handleSave_detail
  \/ PD_updateResolves
  \/ PD_refreshResolves
  \/ TV_handleSave_upload

Settling ==
  /\ WF_vars(Svc_processImage)
  /\ WF_vars(Svc_fetchResolves)
  /\ WF_vars(TV_handleSaveToDB_returns)
  /\ WF_vars(App_saveToDBResolves)
  /\ WF_vars(PD_updateResolves)
  /\ WF_vars(PD_refreshResolves)

SpecLive == InitLive /\ [][NextLive]_vars /\ Settling

\* C23: when every request settles, control returns to the user: a started
\* analysis is followed by isProcessing = false, a started commit by
\* isSaving = false in the table and in the detail screen, and a started save
\* to the database by isSavingToDB = false, whatever the requests answer.
C23_ControlReturns ==
  /\ []<>(~isProcessing)
  /\ []<>(~isSaving)
  /\ []<>(~pdIsSaving)
  /\ []<>(~isSavingToDB)

\* A save to the database of analysed rows has failed and no flag is left set.
C23_Witness ==
  /\ lastOp = "saveToDBReturned" /\ dbMessage = "Error: Failed to save to database"
  /\ nCalls >= 1 /\ results # <<>>
  /\ ~isProcessing /\ ~isSavingToDB /\ ~isSaving

\* C24: records of an analysis that was running when the user left the upload
\* screen are never the record set the upload screen displays, neither when
\* the request completes nor after the user has come back to the screen.
C24_AbandonedResultIsDiscarded ==
  resultsOrigin.abandoned =>
    ~(currentView = "upload" /\ ~isProcessing /\ dbMessage = "" /\ Len(results) > 0)

(***************************************************************************)
(* More claims about the table.                                            *)
(***************************************************************************)
\* C25: when a commit that was in flight completes while the table is in edit
\* mode and holds rows that differ from those handed to the commit (fields
\* were written after Save was clicked), or while an edit session is running
\* that was started after Save was clicked, the table stays in edit mode and
\* the scratch buffer keeps its rows.
C25_CompletionKeepsLaterEdits ==
  [][(/\ savePc # "idle" /\ savePc' = "idle"
      /\ isEditing
      /\ (editedItems # savePayload \/ lastOp = "edit"))
       => (isEditing' /\ editedItems' = editedItems)]_vars

\* C26: the rows and the image URL of a request of saveToDatabase belong to
\* the same file, and so do the rows shown and the URL the upload screen
\* holds: the rows were extracted from the image the URL refers to.
C26_RowsAndUrlOfOneFile ==
  /\ (lastPost.sent /\ lastPost.imageUrl # 0) => lastPost.of = lastPost.imageUrl
  /\ (Len(results) > 0 /\ uploadedUrl # 0) => resultsOrigin.file = uploadedUrl

TriState == {Bool(TRUE), Bool(FALSE), Null}

\* C27: in the request body of saveToDatabase every row carries the required
\* value of the record it was made of: true, false and null are sent as they are.
C27_PayloadKeepsRequired ==
  lastPost.sent =>
    /\ Len(lastPost.results) = Len(lastPost.rows)
    /\ \A i \in 1..Len(lastPost.rows) :
         Member(lastPost.rows[i], "required") \in TriState
           => Member(lastPost.results[i], "required") = lastPost.rows[i].required

\* ---------------------------------------------------------------------------
\* C28: a status message set by a save stays until its own timeout elapses: a
\* clear timer started by an earlier save never clears the message of a later
\* save. Whenever a timer clears a visible message, that timer is not one of
\* those that were already pending when the message was set.
C28_MessageOutlivesEarlierTimers ==
  [][(saveMessage # "" /\ saveMessage' = "" /\ clearTimers' < clearTimers)
       => staleTimers' = staleTimers]_vars

(***************************************************************************)
(* The paginated lists: the history list (ProjectList.tsx) and the project *)
(* management list (NewRegistrationModal.tsx, ProjectManagementScreen).    *)
(* Both filter and cut the rows with the same code. searchTerm is only     *)
(* ever set to '' in both, so the search filter never applies. What the    *)
(* pages depend on is how many rows of each kind there are, and that is    *)
(* what projects holds here.                                               *)
(***************************************************************************)
\* The options of the "Show ... entries" select.
PageSizes == {10, 20, 50, 100}
\* How many rows of one kind a response of the server carries.
RowCounts == {0, 4, 25}
\* The responses of the server.
Loads == [ProjectKinds -> RowCounts]
\* The page a click on Next can still lead to.
MaxPage == 9

Max(a, b) == IF a >= b THEN a ELSE b
Min(a, b) == IF a <= b THEN a ELSE b
\* Math.ceil(n / d)
Ceil(n, d) == (n + d - 1) \div d

RECURSIVE SumOver(_, _)
SumOver(f, S) ==
  IF S = {} THEN 0
  ELSE LET k == CHOOSE x \in S : TRUE IN f[k] + SumOver(f, S \ {k})

\* array.length
Length(rows) == SumOver(rows, ProjectKinds)

\* p.title || p.source
ProjectName(k) == IF k.title # "" THEN k.title ELSE k.source

\* The options of the two filter selects, "All" aside.
uniqueProjects == {ProjectName(k) : k \in {x \in ProjectKinds : projects[x] > 0}}
uniqueScreens == {k.source : k \in {x \in ProjectKinds : projects[x] > 0}}

filteredProjects ==
  [k \in ProjectKinds |->
     IF /\ selectedProject = "All" \/ ProjectName(k) = selectedProject
        /\ selectedScreen = "All" \/ k.source = selectedScreen
       THEN projects[k] ELSE 0]

totalPages == Ceil(Length(filteredProjects), itemsPerPage)

\* filteredProjects.slice(startIndex, endIndex): how many rows the page shows.
paginatedProjects ==
  LET n == Length(filteredProjects)
      startIndex == (currentPage - 1) * itemsPerPage
      endIndex == startIndex + itemsPerPage
  IN Max(0, Min(endIndex, n) - Min(startIndex, n))

\* The list is on the screen: neither the spinner nor the error page.
ListShown == ~loading /\ error = ""

\* The page number of the i-th of the numbered buttons.
PageNum(i) ==
  IF totalPages <= 5 THEN i + 1
  ELSE IF currentPage <= 3 THEN i + 1
  ELSE IF currentPage >= totalPages - 2 THEN totalPages - 4 + i
  ELSE currentPage - 2 + i

PageFrame ==
  UNCHANGED <<host, tableVars, detailVars, appVars, uploadVars, histVars, analysisVars,
              normVars, csvVars, viewVars, navVars, dbVars, resultsOrigin, staleTimers,
              loginVars, listKind>>

\* fetchProjects of the history list resolves: an empty answer and a failure
\* lead to the error page and leave the rows as they are.
PL_fetchResolves ==
  /\ listKind = "history" /\ loading
  /\ \/ \E data \in Loads :
          IF Length(data) > 0
            THEN projects' = data /\ UNCHANGED error
            ELSE error' = "No projects found" /\ UNCHANGED projects
     \/ error' = "Failed to fetch projects" /\ UNCHANGED projects
  /\ loading' = FALSE
  /\ UNCHANGED <<selectedProject, selectedScreen, currentPage, itemsPerPage>>
  /\ PageFrame

\* Click on Retry of the error page: fetchProjects starts.
PL_retry ==
  /\ listKind = "history" /\ ~loading /\ error # ""
  /\ loading' = TRUE /\ error' = ""
  /\ UNCHANGED <<projects, selectedProject, selectedScreen, currentPage, itemsPerPage>>
  /\ PageFrame

\* fetchProjects of the management list resolves: an empty answer and a
\* failure empty the list.
PM_fetchResolves ==
  /\ listKind = "management" /\ loading
  /\ \/ \E data \in Loads :
          projects' = (IF Length(data) > 0 THEN data ELSE NoProjects)
     \/ projects' = NoProjects
  /\ loading' = FALSE /\ error' = ""
  /\ UNCHANGED <<selectedProject, selectedScreen, currentPage, itemsPerPage>>
  /\ PageFrame

\* handleRegister, handleConfirmDelete: the request has succeeded and
\* fetchProjects starts.
PM_fetchProjects ==
  /\ listKind = "management" /\ ListShown
  /\ loading' = TRUE /\ error' = ""
  /\ UNCHANGED <<projects, selectedProject, selectedScreen, currentPage, itemsPerPage>>
  /\ PageFrame

\* handleSaveEdit: updateScreen has succeeded, the row gets the new screen
\* name and fetchProjects starts.
PM_handleSaveEdit ==
  /\ listKind = "management" /\ ListShown
  /\ \E k \in ProjectKinds, name \in {"S", "T"} :
       LET renamed == [title |-> k.title, source |-> name] IN
         /\ projects[k] > 0 /\ name # k.source /\ renamed \in ProjectKinds
         /\ projects' = [projects EXCEPT ![k] = @ - 1, ![renamed] = @ + 1]
  /\ loading' = TRUE /\ error' = ""
  /\ UNCHANGED <<selectedProject, selectedScreen, currentPage, itemsPerPage>>
  /\ PageFrame

\* onChange of the project filter.
List_setSelectedProject ==
  /\ ListShown
  /\ \E value \in {"All"} \cup uniqueProjects :
       value # selectedProject /\ selectedProject' = value
  /\ UNCHANGED <<projects, loading, error, selectedScreen, currentPage, itemsPerPage>>
  /\ PageFrame

\* onChange of the screen filter.
List_setSelectedScreen ==
  /\ ListShown
  /\ \E value \in {"All"} \cup uniqueScreens :
       value # selectedScreen /\ selectedScreen' = value
  /\ UNCHANGED <<projects, loading, error, selectedProject, currentPage, itemsPerPage>>
  /\ PageFrame

\* Click on Clear.
List_handleClearFilters ==
  /\ ListShown
  /\ selectedProject' = "All" /\ selectedScreen' = "All" /\ currentPage' = 1
  /\ UNCHANGED <<projects, loading, error, itemsPerPage>>
  /\ PageFrame

\* Click on Search.
List_handleSearch ==
  /\ ListShown
  /\ currentPage' = 1
  /\ UNCHANGED <<projects, loading, error, selectedProject, selectedScreen, itemsPerPage>>
  /\ PageFrame

\* onChange of the page-size select.
List_setItemsPerPage ==
  /\ ListShown
  /\ \E size \in PageSizes : size # itemsPerPage /\ itemsPerPage' = size
  /\ currentPage' = 1
  /\ UNCHANGED <<projects, loading, error, selectedProject, selectedScreen>>
  /\ PageFrame

\* Click on Prev, disabled on page 1.
List_prev ==
  /\ ListShown /\ currentPage # 1
  /\ currentPage' = currentPage - 1
  /\ UNCHANGED <<projects, loading, error, selectedProject, selectedScreen, itemsPerPage>>
  /\ PageFrame

\* Click on one of the numbered buttons.
List_pageButton ==
  /\ ListShown
  /\ \E i \in 0..(Min(totalPages, 5) - 1) :
       PageNum(i) # currentPage /\ currentPage' = PageNum(i)
  /\ UNCHANGED <<projects, loading, error, selectedProject, selectedScreen, itemsPerPage>>
  /\ PageFrame

\* Click on the button of the last page, shown after the ellipsis.
List_lastPage ==
  /\ ListShown /\ totalPages > 5 /\ currentPage < totalPages - 2
  /\ currentPage' = totalPages
  /\ UNCHANGED <<projects, loading, error, selectedProject, selectedScreen, itemsPerPage>>
  /\ PageFrame

\* Click on Next, disabled when currentPage === totalPages.
List_next ==
  /\ ListShown /\ currentPage # totalPages
  /\ currentPage < MaxPage
  /\ currentPage' = currentPage + 1
  /\ UNCHANGED <<projects, loading, error, selectedProject, selectedScreen, itemsPerPage>>
  /\ PageFrame

\* One of the two lists has been opened from the sidebar and is loading.
InitPage ==
  /\ TableAtRest /\ AppIdle /\ AnalysisIdle /\ NormIdle
  /\ ViewIdle /\ DbIdle /\ resultsOrigin = NoOrigin /\ staleTimers = 0 /\ LoginIdle
  /\ listKind \in {"history", "management"}
  /\ currentView = (IF listKind = "history" THEN "projects" ELSE "project-management")
  /\ projects = NoProjects /\ loading = TRUE /\ error = ""
  /\ selectedProject = "All" /\ selectedScreen = "All"
  /\ currentPage = 1 /\ itemsPerPage = 20

NextPage ==
  \/ PL_fetchResolves
  \/ PL_retry
  \/ PM_fetchResolves
  \/ PM_fetchProjects
  \/ PM_handleSaveEdit
  \/ List_setSelectedProject
  \/ List_setSelectedScreen
  \/ List_handleClearFilters
  \/ List_handleSearch
  \/ List_setItemsPerPage
  \/ List_prev
  \/ List_pageButton
  \/ List_lastPage
  \/ List_next

SpecPage == InitPage /\ [][NextPage]_vars

\* ---------------------------------------------------------------------------
\* C29: in every paginated list, whenever the list is on the screen,
\* 1 <= currentPage <= max(1, totalPages), and the page shown has at least one
\* row when some row matches the filters.
C29_PageWithinRange ==
  ListShown =>
    /\ 1 <= currentPage /\ currentPage <= Max(1, totalPages)
    /\ Length(filteredProjects) > 0 => paginatedProjects > 0

(***************************************************************************)
(* The Google login flag: localStorage 'google_sheet_logged_in', the       *)
(* Sidebar that shows it (Sidebar.tsx), the OAuth callback of App and the  *)
(* sheet export of the project detail screen, which write it.              *)
(***************************************************************************)
\* Requests of the login status that may be in flight at once.
MaxChecks == 2

GOOGLE_LOGIN_STORAGE_KEY == Str("google_sheet_logged_in")

\* new Event('storage'): an Event is not a StorageEvent, it carries neither a
\* key nor a newValue.
PlainStorageEvent == [type |-> "storage", key |-> Undef, newValue |-> Undef]

\* The StorageEvent the browser delivers when another tab writes the key.
StorageEvent(key, newValue) == [type |-> "storage", key |-> key, newValue |-> newValue]

\* handleStorageChange: what isGoogleLoggedIn is after the listener has run.
handleStorageChange(e, current) ==
  IF e.key = GOOGLE_LOGIN_STORAGE_KEY THEN e.newValue = Str("true") ELSE current

\* The rows of the PUT that follows the creation of the sheet, as the server
\* keeps them.
ExportUpdateRows(items) ==
  [i \in 1..Len(items) |->
     [id |-> items[i].id,
      content |-> items[i].content,
      type |-> items[i].type,
      database |-> items[i].database,
      description |-> items[i].description,
      imageProcessingResultId |-> JsOr(Member(items[i], "imageProcessingResultId"), Num(0)),
      dataType |-> JsOr(Member(items[i], "dataType"), Str("string")),
      dbField |-> JsOr(Member(items[i], "dbField"), Str("")),
      io |-> JsOr(Member(items[i], "io"), Str("Output")),
      required |-> IF Member(items[i], "required") # Undef
                     THEN items[i].required ELSE Bool(FALSE)]]

LoginFrame ==
  UNCHANGED <<host, tableVars, uploadVars, analysisVars, normVars, csvVars, viewVars, dbVars,
              resultsOrigin, pageVars, results, isProcessing, errorMessage, dbMessage,
              savePc, savePayload, lastOp, baseB, touched, nEdits, nSaves, lastWrite>>

\* The mount effects: the one of the Sidebar (checkGoogleLoginStatus, the
\* interval, the listener) runs before the one of App (handleOAuthCallback),
\* so the listener is registered when App dispatches its event.
App_mount ==
  /\ ~effectsRan
  /\ effectsRan' = TRUE
  /\ \E callback \in BOOLEAN :
       LET checked == (googleFlag = Str("true")) \/ isGoogleLoggedIn IN
         /\ statusChecks' = (IF googleFlag = Str("true") THEN statusChecks ELSE statusChecks + 1)
         /\ IF callback
              THEN /\ googleFlag' = Str("true")
                   /\ lastEvent' = PlainStorageEvent
                   /\ isGoogleLoggedIn' = handleStorageChange(PlainStorageEvent, checked)
                   /\ loginOp' = "oauthCallback"
              ELSE /\ isGoogleLoggedIn' = checked
                   /\ loginOp' = "mount"
                   /\ UNCHANGED <<googleFlag, lastEvent>>
  /\ currentView' = "upload"
  /\ UNCHANGED <<exportPc, googleSheetUrl, processedItems, serverItems, pdIsSaving,
                 saveMessage, clearTimers, staleTimers, extSince>>
  /\ LoginFrame

\* The interval fires: checkGoogleLoginStatus.
Sidebar_checkGoogleLoginStatus ==
  /\ effectsRan
  /\ IF googleFlag = Str("true")
       THEN isGoogleLoggedIn' = TRUE /\ UNCHANGED statusChecks
       ELSE /\ statusChecks < MaxChecks
            /\ statusChecks' = statusChecks + 1
            /\ UNCHANGED isGoogleLoggedIn
  /\ loginOp' = "poll"
  /\ UNCHANGED <<googleFlag, exportPc, googleSheetUrl, lastEvent, effectsRan, currentView,
                 processedItems, serverItems, pdIsSaving, saveMessage, clearTimers,
                 staleTimers, extSince>>
  /\ LoginFrame

\* checkAPI: GET /google-sheet/oauth/status resolves or rejects.
Sidebar_checkAPIResolves ==
  /\ statusChecks > 0
  /\ statusChecks' = statusChecks - 1
  /\ \E authenticated \in BOOLEAN :
       /\ isGoogleLoggedIn' = authenticated
       /\ googleFlag' = (IF authenticated THEN Str("true") ELSE Null)
  /\ loginOp' = "checkResolved"
  /\ UNCHANGED <<exportPc, googleSheetUrl, lastEvent, effectsRan, currentView,
                 processedItems, serverItems, pdIsSaving, saveMessage, clearTimers,
                 staleTimers, extSince>>
  /\ LoginFrame

\* Another tab of the application writes or removes the key: the browser
\* delivers a StorageEvent to this one.
OtherTab_writesFlag ==
  /\ effectsRan
  /\ \E value \in {Str("true"), Null} :
       /\ value # googleFlag
       /\ googleFlag' = value
       /\ lastEvent' = StorageEvent(GOOGLE_LOGIN_STORAGE_KEY, value)
       /\ isGoogleLoggedIn' =
            handleStorageChange(StorageEvent(GOOGLE_LOGIN_STORAGE_KEY, value),
                                isGoogleLoggedIn)
  /\ loginOp' = "otherTab"
  /\ UNCHANGED <<statusChecks, exportPc, googleSheetUrl, effectsRan, currentView,
                 processedItems, serverItems, pdIsSaving, saveMessage, clearTimers,
                 staleTimers, extSince>>
  /\ LoginFrame

\* Click on the export button: exportToGoogleSheet up to the POST of
\* /google-sheet/oauth/create.
PD_exportToGoogleSheet ==
  /\ host = "detail" /\ effectsRan
  /\ Len(processedItems) > 0 /\ ~pdIsSaving /\ exportPc = "idle"
  /\ clearTimers < MaxTimers
  /\ pdIsSaving' = TRUE
  /\ saveMessage' = "Creating Google Sheet..."
  /\ staleTimers' = clearTimers
  /\ googleSheetUrl' = ""
  /\ exportPc' = "create"
  /\ loginOp' = "export"
  /\ UNCHANGED <<googleFlag, isGoogleLoggedIn, statusChecks, lastEvent, effectsRan,
                 currentView, processedItems, serverItems, clearTimers, extSince>>
  /\ LoginFrame

\* The POST resolves. With a url in the answer the flag is stored and the PUT
\* of the project follows; else the catch block removes the flag and
\* dispatches new Event('storage').
PD_exportCreateResolves ==
  /\ exportPc = "create"
  /\ \E created \in BOOLEAN :
       IF created
         THEN /\ googleSheetUrl' = "url"
              /\ googleFlag' = Str("true")
              /\ exportPc' = "put"
              /\ loginOp' = "exportCreated"
              /\ UNCHANGED <<isGoogleLoggedIn, lastEvent, saveMessage, staleTimers,
                             clearTimers, pdIsSaving>>
         ELSE /\ saveMessage' = "Loi: Export failed"
              /\ staleTimers' = clearTimers
              /\ googleFlag' = Null
              /\ lastEvent' = PlainStorageEvent
              /\ isGoogleLoggedIn' = handleStorageChange(PlainStorageEvent, isGoogleLoggedIn)
              /\ clearTimers' = clearTimers + 1
              /\ pdIsSaving' = FALSE
              /\ exportPc' = "idle"
              /\ loginOp' = "exportFailed"
              /\ UNCHANGED googleSheetUrl
  /\ UNCHANGED <<statusChecks, effectsRan, currentView, processedItems, serverItems,
                 extSince>>
  /\ LoginFrame

\* The PUT of the project resolves: an answer that is ok replaces the project
\* of App (onProjectUpdate), a failure is only logged. Then the message of the
\* success and its timer.
PD_exportPutResolves ==
  /\ exportPc = "put"
  /\ \E updated \in BOOLEAN :
       IF updated
         THEN /\ serverItems' = ExportUpdateRows(processedItems)
              /\ processedItems' = serverItems'
              /\ extSince' = TRUE
         ELSE UNCHANGED <<serverItems, processedItems, extSince>>
  /\ saveMessage' = "Google Sheet created"
  /\ staleTimers' = clearTimers
  /\ clearTimers' = clearTimers + 1
  /\ pdIsSaving' = FALSE
  /\ exportPc' = "idle"
  /\ loginOp' = "exportDone"
  /\ UNCHANGED <<googleFlag, isGoogleLoggedIn, statusChecks, googleSheetUrl, lastEvent,
                 effectsRan, currentView>>
  /\ LoginFrame

\* Either the application is about to run its mount effects, or it has run
\* them and a project is open on the detail screen.
InitLogin ==
  /\ googleFlag \in {Str("true"), Null}
  /\ \/ /\ TableAtRest /\ AppIdle /\ AnalysisIdle /\ NormIdle
        /\ effectsRan = FALSE /\ isGoogleLoggedIn = FALSE
     \/ /\ TableOpen /\ host = "detail"
        /\ effectsRan = TRUE /\ isGoogleLoggedIn = (googleFlag = Str("true"))
  /\ CoreIdle /\ PageIdle
  /\ statusChecks = 0 /\ exportPc = "idle" /\ googleSheetUrl = ""
  /\ lastEvent = NoEvent /\ loginOp = "init"

NextLogin ==
  \/ App_mount
  \/ Sidebar_checkGoogleLoginStatus
  \/ Sidebar_checkAPIResolves
  \/ OtherTab_writesFlag
  \/ PD_exportToGoogleSheet
  \/ PD_exportCreateResolves
  \/ PD_exportPutResolves

SpecLogin == InitLogin /\ [][NextLogin]_vars

\* ---------------------------------------------------------------------------
\* C30: when the application has stored the login flag on the OAuth success
\* callback, or removed it after a failed sheet export, and has dispatched the
\* 'storage' event, isGoogleLoggedIn of the Sidebar equals the stored flag.
C30_SidebarFollowsOwnEvents ==
  loginOp \in {"oauthCallback", "exportFailed"} =>
    isGoogleLoggedIn = (googleFlag = Str("true"))
====
